---- MODULE Spec2Model ----
(***************************************************************************)
(* Verification model of the ohmline circuit engine: Polynomial,           *)
(* RationalExpr, solveLinearSystem, calculateEquivalentResistance and      *)
(* calculateCurrents.                                                      *)
(*                                                                         *)
(* Numbers.  The source computes with IEEE doubles.  The model computes    *)
(* with exact rationals <<p, q>> (q > 0, lowest terms).  On the inputs     *)
(* drawn here (small integers) every intermediate double of the source is  *)
(* either 0 or of magnitude far above the tolerances 1e-15 / 1e-12 /       *)
(* 1e-10 used by the source, so each tolerance test of the source          *)
(* coincides with the exact test written here.  Rounding of doubles is not *)
(* modelled.                                                               *)
(*                                                                         *)
(* Circuits.  Edge endpoints are always ids of nodes of the circuit (the   *)
(* canvas removes the incident edges together with a node).                *)
(***************************************************************************)
EXTENDS Integers, Sequences, FiniteSets, TLC

RECURSIVE Invoke(_, _)

(***************************************************************************)
(* JS numbers as exact rationals                                           *)
(***************************************************************************)
Abs(x) == IF x < 0 THEN -x ELSE x

RECURSIVE IntGcd(_, _)
IntGcd(a, b) == IF b = 0 THEN a ELSE IntGcd(b, a % b)

\* the rational p/q in lowest terms with positive denominator (q # 0)
Num(p, q) ==
  LET g == IntGcd(Abs(p), Abs(q))
      s == IF q < 0 THEN -1 ELSE 1
  IN  <<(p * s) \div g, (q * s) \div g>>

N0 == <<0, 1>>
N1 == <<1, 1>>
NumOf(i) == <<i, 1>>
NumAdd(x, y) == Num(x[1] * y[2] + y[1] * x[2], x[2] * y[2])
NumNeg(x) == <<-x[1], x[2]>>
NumSub(x, y) == NumAdd(x, NumNeg(y))
NumMul(x, y) == Num(x[1] * y[1], x[2] * y[2])
\* x / y for y # 0
NumDiv(x, y) == Num(x[1] * y[2], x[2] * y[1])
NumAbs(x) == <<Abs(x[1]), x[2]>>
NumLt(x, y) == x[1] * y[2] < y[1] * x[2]
NumIsInt(x) == x[2] = 1

\* Math.abs(c) <= 1e-15 : on the model's numbers, exactly c = 0
Negligible(c) == c[1] = 0
\* Math.abs(c) < 1e-12 (trimTrailingZeros, polyRemainder)
NearZero(c) == c[1] = 0
\* Math.abs(x - y) > 1e-12 / 1e-10 (Polynomial.equals, scalarRatio)
NumDiffers(x, y) == x # y

(***************************************************************************)
(* JS Map<key, value> in insertion order: a sequence of <<key, value>>     *)
(***************************************************************************)
MapHas(m, k) == \E i \in 1..Len(m) : m[i][1] = k
MapGet(m, k) == m[CHOOSE i \in 1..Len(m) : m[i][1] = k][2]
MapSet(m, k, v) ==
  IF MapHas(m, k)
    THEN [i \in 1..Len(m) |-> IF m[i][1] = k THEN <<k, v>> ELSE m[i]]
    ELSE Append(m, <<k, v>>)
MapDelete(m, k) == SelectSeq(m, LAMBDA t : t[1] # k)

(***************************************************************************)
(* Polynomial: Map from monomial key to coefficient.  A monomial key is    *)
(* the sorted sequence of its variable names (<<>> is the constant key;    *)
(* the source joins the names with "*").                                   *)
(***************************************************************************)
\* Strings are sequences of one-character strings.  Chars lists the
\* characters the model's inputs are written with, in UTF-16 code unit
\* order; "U221E" stands for the single character U+221E (the infinity glyph).
Chars == <<"+", "-", "0", "1", "2", "3", "4", "5", "6", "7", "8", "9",
           "I", "V", "f", "i", "n", "r", "s", "t", "y", "U221E">>
CharRank(c) == CHOOSE i \in 1..Len(Chars) : Chars[i] = c

\* a < b in code unit order (the order of Array.prototype.sort)
RECURSIVE StrLt(_, _)
StrLt(a, b) ==
  IF b = <<>> THEN FALSE
  ELSE IF a = <<>> THEN TRUE
  ELSE IF Head(a) = Head(b) THEN StrLt(Tail(a), Tail(b))
  ELSE CharRank(Head(a)) < CharRank(Head(b))

ConstKey == <<>>

\* constructor: keep the terms with |coef| > 1e-15
PolyCtor(terms) == SelectSeq(terms, LAMBDA t : ~Negligible(t[2]))

PolyZero == <<>>

PolyConstant(value) ==
  IF Negligible(value) THEN PolyZero ELSE PolyCtor(<<<<ConstKey, value>>>>)

PolyVariable(name) == PolyCtor(<<<<(<<name>>), N1>>>>)

RECURSIVE PolyAddLoop(_, _, _)
PolyAddLoop(out, other, i) ==
  IF i > Len(other) THEN out
  ELSE LET key == other[i][1]
           sum == NumAdd(IF MapHas(out, key) THEN MapGet(out, key) ELSE N0,
                         other[i][2])
       IN  PolyAddLoop(IF Negligible(sum) THEN MapDelete(out, key)
                                          ELSE MapSet(out, key, sum),
                       other, i + 1)

\* faulty variant of add: every sum is stored, also a zero one
RECURSIVE PolyAddKeepLoop(_, _, _)
PolyAddKeepLoop(out, other, i) ==
  IF i > Len(other) THEN out
  ELSE LET key == other[i][1]
           sum == NumAdd(IF MapHas(out, key) THEN MapGet(out, key) ELSE N0,
                         other[i][2])
       IN  PolyAddKeepLoop(MapSet(out, key, sum), other, i + 1)
PolyAddKeep(p, other) == PolyAddKeepLoop(p, other, 1)

PolyAdd(p, other) == PolyCtor(PolyAddLoop(p, other, 1))

PolyNegate(p) == PolyCtor([i \in 1..Len(p) |-> <<p[i][1], NumNeg(p[i][2])>>])

PolySubtract(p, other) == Invoke("PolyAdd", <<p, PolyNegate(other)>>)

PolyScale(p, s) ==
  IF Negligible(s) THEN PolyZero
  ELSE PolyCtor(SelectSeq([i \in 1..Len(p) |-> <<p[i][1], NumMul(p[i][2], s)>>],
                          LAMBDA t : ~Negligible(t[2])))

\* insert name v into the sorted sequence k
RECURSIVE InsertSorted(_, _)
InsertSorted(k, v) ==
  IF k = <<>> THEN <<v>>
  ELSE IF StrLt(v, Head(k)) THEN <<v>> \o k
  ELSE <<Head(k)>> \o InsertSorted(Tail(k), v)

RECURSIVE mergeKeys(_, _)
mergeKeys(a, b) ==
  IF b = <<>> THEN a ELSE mergeKeys(InsertSorted(a, Head(b)), Tail(b))

\* the double loop of multiply, flattened: index t runs over the pairs
\* (term ia of p, term ib of other) in row-major order
RECURSIVE PolyMulLoop(_, _, _, _)
PolyMulLoop(out, p, other, t) ==
  IF t >= Len(p) * Len(other) THEN out
  ELSE LET ia == (t \div Len(other)) + 1
           ib == (t % Len(other)) + 1
           key == mergeKeys(p[ia][1], other[ib][1])
           val == NumAdd(IF MapHas(out, key) THEN MapGet(out, key) ELSE N0,
                         NumMul(p[ia][2], other[ib][2]))
       IN  PolyMulLoop(IF Negligible(val) THEN MapDelete(out, key)
                                          ELSE MapSet(out, key, val),
                       p, other, t + 1)

PolyMultiply(p, other) == PolyCtor(PolyMulLoop(<<>>, p, other, 0))

PolyIsZero(p) == Len(p) = 0

PolyIsConstant(p) ==
  \/ Len(p) = 0
  \/ Len(p) = 1 /\ MapHas(p, ConstKey)

constantValue(p) == IF MapHas(p, ConstKey) THEN MapGet(p, ConstKey) ELSE N0

getVariables(p) == UNION {{p[i][1][j] : j \in 1..Len(p[i][1])} : i \in 1..Len(p)}

PolyEquals(p, other) ==
  /\ Len(p) = Len(other)
  /\ \A i \in 1..Len(p) :
        /\ MapHas(other, p[i][1])
        /\ ~NumDiffers(p[i][2], MapGet(other, p[i][1]))

(***************************************************************************)
(* RationalExpr helper functions (coefficient arrays are sequences of      *)
(* numbers in ascending degree, index 1 holding degree 0)                  *)
(***************************************************************************)
\* faulty variant of gcd: no common factor is found
gcdNone(a, b) == N1

\* gcd(a, b) of the source, called with a, b >= 0
gcd(a, b) ==
  IF Negligible(a) THEN b
  ELSE IF Negligible(b) THEN a
  ELSE IF NumIsInt(a) /\ NumIsInt(b) THEN NumOf(IntGcd(a[1], b[1]))
  ELSE N1

\* first coefficient in the Map's iteration (insertion) order
leadingCoef(p) == IF Len(p) = 0 THEN N0 ELSE p[1][2]

\* scalarRatio's null (not a number of the model: zero denominator)
NoRatio == <<0, 0>>

RECURSIVE scalarRatioLoop(_, _, _, _)
scalarRatioLoop(a, b, i, ratio) ==
  IF i > Len(a) THEN ratio
  ELSE IF ~MapHas(b, a[i][1]) THEN NoRatio
  ELSE LET r == NumDiv(a[i][2], MapGet(b, a[i][1]))
       IN  IF ratio = NoRatio THEN scalarRatioLoop(a, b, i + 1, r)
           ELSE IF NumDiffers(r, ratio) THEN NoRatio
           ELSE scalarRatioLoop(a, b, i + 1, ratio)

scalarRatio(a, b) ==
  IF Len(a) # Len(b) THEN NoRatio
  ELSE IF Len(a) = 0 THEN NoRatio
  ELSE scalarRatioLoop(a, b, 1, NoRatio)

\* number of occurrences of varName in a monomial key
KeyDeg(key, varName) == Cardinality({j \in 1..Len(key) : key[j] = varName})

SeqMax(S) == CHOOSE x \in S : \A y \in S : y <= x

RECURSIVE SumCoefs(_, _, _, _)
SumCoefs(p, varName, deg, i) ==
  IF i > Len(p) THEN N0
  ELSE NumAdd(IF KeyDeg(p[i][1], varName) = deg THEN p[i][2] ELSE N0,
              SumCoefs(p, varName, deg, i + 1))

toUnivariateCoefs(p, varName) ==
  LET maxDeg == SeqMax({0} \cup {KeyDeg(p[i][1], varName) : i \in 1..Len(p)})
  IN  [k \in 1..(maxDeg + 1) |-> SumCoefs(p, varName, k - 1, 1)]

RECURSIVE fromUnivariateLoop(_, _, _, _, _)
fromUnivariateLoop(coefs, varName, i, result, power) ==
  IF i > Len(coefs) THEN result
  ELSE fromUnivariateLoop(coefs, varName, i + 1,
         IF ~Negligible(coefs[i]) THEN Invoke("PolyAdd", <<result, Invoke("PolyScale", <<power, coefs[i]>>)>>)
                                  ELSE result,
         IF i < Len(coefs) THEN Invoke("PolyMultiply", <<power, PolyVariable(varName)>>)
                           ELSE power)

fromUnivariateCoefs(coefs, varName) ==
  fromUnivariateLoop(coefs, varName, 1, PolyZero, PolyConstant(N1))

RECURSIVE trimTrailingZeros(_)
trimTrailingZeros(a) ==
  IF Len(a) > 0 /\ NearZero(a[Len(a)])
    THEN trimTrailingZeros(SubSeq(a, 1, Len(a) - 1))
    ELSE a

RECURSIVE polyRemainderLoop(_, _)
polyRemainderLoop(result, b) ==
  IF ~(Len(result) >= Len(b) /\ Len(result) > 0) THEN result
  ELSE IF NearZero(result[Len(result)])
    THEN polyRemainderLoop(SubSeq(result, 1, Len(result) - 1), b)
  ELSE LET factor == NumDiv(result[Len(result)], b[Len(b)])
           shift == Len(result) - Len(b)
           upd == [k \in 1..Len(result) |->
                     IF k > shift
                       THEN NumSub(result[k], NumMul(factor, b[k - shift]))
                       ELSE result[k]]
       IN  polyRemainderLoop(SubSeq(upd, 1, Len(upd) - 1), b)

polyRemainder(a, b) == polyRemainderLoop(a, b)

RECURSIVE univariateGCDLoop(_, _)
univariateGCDLoop(a, b) ==
  IF Len(b) = 0 THEN a
  ELSE univariateGCDLoop(b, trimTrailingZeros(Invoke("polyRemainder", <<a, b>>)))

univariateGCD(a0, b0) ==
  LET a == trimTrailingZeros(a0)
      b == trimTrailingZeros(b0)
  IN  IF Len(a) = 0 THEN b
      ELSE IF Len(b) = 0 THEN a
      ELSE LET g == IF Len(a) < Len(b) THEN univariateGCDLoop(b, a)
                                       ELSE univariateGCDLoop(a, b)
           IN  IF Len(g) > 0 /\ ~Negligible(g[Len(g)])
                 THEN [k \in 1..Len(g) |-> NumDiv(g[k], g[Len(g)])]
                 ELSE g

\* the quotient loop of polyDivide: i runs from degA - degB down to 0
RECURSIVE polyDivideLoop(_, _, _, _)
polyDivideLoop(rem, b, i, quotient) ==
  IF i < 0 THEN quotient
  ELSE LET degB == Len(b) - 1
           coef == NumDiv(rem[i + degB + 1], b[Len(b)])
           rem2 == [k \in 1..Len(rem) |->
                      IF k - 1 >= i /\ k - 1 - i <= degB
                        THEN NumSub(rem[k], NumMul(coef, b[k - i]))
                        ELSE rem[k]]
       IN  polyDivideLoop(rem2, b, i - 1,
                          [quotient EXCEPT ![i + 1] = coef])

polyDivide(a0, b0) ==
  IF Len(b0) = 0 THEN a0
  ELSE LET a == trimTrailingZeros(a0)
           b == trimTrailingZeros(b0)
       IN  IF Len(a) < Len(b) THEN <<N0>>
           ELSE polyDivideLoop(a, b, Len(a) - Len(b),
                               [k \in 1..(Len(a) - Len(b) + 1) |-> N0])

cancelUnivariateGCD(num, den, varName) ==
  LET nCoefs == Invoke("toUnivariateCoefs", <<num, varName>>)
      dCoefs == Invoke("toUnivariateCoefs", <<den, varName>>)
      g == Invoke("univariateGCD", <<nCoefs, dCoefs>>)
  IN  IF Len(g) <= 1 THEN <<num, den>>
      ELSE <<Invoke("fromUnivariateCoefs", <<trimTrailingZeros(Invoke("polyDivide", <<nCoefs, g>>)), varName>>),
             Invoke("fromUnivariateCoefs", <<trimTrailingZeros(Invoke("polyDivide", <<dCoefs, g>>)), varName>>)>>

(***************************************************************************)
(* RationalExpr: [num, den], always stored simplified                      *)
(***************************************************************************)
simplify(num, den) ==
  IF PolyIsZero(den) THEN
    IF PolyIsZero(num) THEN <<PolyZero, PolyConstant(N1)>>
    ELSE <<PolyConstant(N1), den>>
  ELSE IF PolyIsZero(num) THEN <<num, PolyConstant(N1)>>
  ELSE IF PolyIsConstant(num) /\ PolyIsConstant(den) THEN
    LET nv == constantValue(num)
        dv == constantValue(den)
        g == gcd(NumAbs(nv), NumAbs(dv))
        sign == IF NumLt(dv, N0) THEN NumOf(-1) ELSE N1
    IN  <<PolyConstant(NumMul(NumDiv(nv, g), sign)),
          PolyConstant(NumMul(NumDiv(dv, g), sign))>>
  ELSE
    LET neg == NumLt(leadingCoef(den), N0)
        n == IF neg THEN PolyNegate(num) ELSE num
        d == IF neg THEN PolyNegate(den) ELSE den
        ratio == Invoke("scalarRatio", <<n, d>>)
    IN  IF ratio # NoRatio THEN <<PolyConstant(ratio), PolyConstant(N1)>>
        ELSE LET nVars == getVariables(n)
                 dVars == getVariables(d)
                 allVars == nVars \cup dVars
             IN  IF Cardinality(nVars) <= 1 /\ Cardinality(dVars) <= 1
                    /\ Cardinality(allVars) = 1
                   THEN LET c == Invoke("cancelUnivariateGCD", <<n, d, CHOOSE v \in allVars : TRUE>>)
                            neg2 == NumLt(leadingCoef(c[2]), N0)
                        IN  IF neg2 THEN <<PolyNegate(c[1]), PolyNegate(c[2])>>
                            ELSE c
                   ELSE <<n, d>>

\* faulty variant of the constructor: the pair is stored as given
storeAsGiven(numerator, denominator) ==
  [num |-> numerator, den |-> denominator]

RationalExpr(numerator, denominator) ==
  LET s == Invoke("simplify", <<numerator, denominator>>)
  IN  [num |-> s[1], den |-> s[2]]

ZERO == RationalExpr(PolyZero, PolyConstant(N1))
ONE == RationalExpr(PolyConstant(N1), PolyConstant(N1))
INFINITY == RationalExpr(PolyConstant(N1), PolyZero)

isZero(x) == PolyIsZero(x.num) /\ ~PolyIsZero(x.den)
isInfinity(x) == ~PolyIsZero(x.num) /\ PolyIsZero(x.den)
isNumeric(x) == PolyIsConstant(x.num) /\ PolyIsConstant(x.den)

\* a JS number that is a finite rational, and the number Infinity
Finite(v) == [threw |-> FALSE, fin |-> TRUE, value |-> v]
Infinite == [threw |-> FALSE, fin |-> FALSE, value |-> N0]
\* the outcome of a call that throws an Error
Threw == [threw |-> TRUE, fin |-> TRUE, value |-> N0]

\* faulty variant of toNumber: a symbolic expression is converted by its
\* constant terms
toNumberLenient(x) ==
  IF isInfinity(x) THEN Infinite
  ELSE IF isZero(x) THEN Finite(N0)
  ELSE Finite(NumDiv(constantValue(x.num), constantValue(x.den)))

toNumber(x) ==
  IF isInfinity(x) THEN Infinite
  ELSE IF isZero(x) THEN Finite(N0)
  ELSE IF ~isNumeric(x) THEN Threw
  ELSE Finite(NumDiv(constantValue(x.num), constantValue(x.den)))

\* faulty variant of negate: the negated numerator is stored as it is
negateSigned(x) == [num |-> PolyNegate(x.num), den |-> x.den]

negate(x) == RationalExpr(PolyNegate(x.num), x.den)

add(x, other) ==
  IF isInfinity(x) \/ isInfinity(other) THEN INFINITY
  ELSE RationalExpr(Invoke("PolyAdd", <<Invoke("PolyMultiply", <<x.num, other.den>>),
                            Invoke("PolyMultiply", <<other.num, x.den>>)>>),
                    Invoke("PolyMultiply", <<x.den, other.den>>))

subtract(x, other) == Invoke("add", <<x, negate(other)>>)

\* faulty variant of multiply: infinity times zero is infinity
multiplyInfinityWins(x, other) ==
  IF isInfinity(x) \/ isInfinity(other) THEN INFINITY
  ELSE RationalExpr(Invoke("PolyMultiply", <<x.num, other.num>>),
                    Invoke("PolyMultiply", <<x.den, other.den>>))

multiply(x, other) ==
  IF isInfinity(x) THEN (IF isZero(other) THEN ZERO ELSE INFINITY)
  ELSE IF isInfinity(other) THEN (IF isZero(x) THEN ZERO ELSE INFINITY)
  ELSE RationalExpr(Invoke("PolyMultiply", <<x.num, other.num>>),
                    Invoke("PolyMultiply", <<x.den, other.den>>))

\* faulty variant of reciprocal: zero is mapped to zero
reciprocalZeroStays(x) ==
  IF isZero(x) THEN ZERO
  ELSE IF isInfinity(x) THEN ZERO
  ELSE RationalExpr(x.den, x.num)

reciprocal(x) ==
  IF isZero(x) THEN INFINITY
  ELSE IF isInfinity(x) THEN ZERO
  ELSE RationalExpr(x.den, x.num)

divide(x, other) == Invoke("multiply", <<x, Invoke("reciprocal", <<other>>)>>)

equals(x, other) ==
  PolyEquals(Invoke("PolyMultiply", <<x.num, other.den>>), Invoke("PolyMultiply", <<other.num, x.den>>))

(***************************************************************************)
(* solveLinearSystem.  A is a sequence of n rows of n entries, b a         *)
(* sequence of n entries; the result is [ok, x], ok = FALSE standing for   *)
(* the null ("singular") return.                                           *)
(***************************************************************************)
\* the pivot search of one column; pivotRow = 0 stands for -1
\* faulty variant of findPivot: only the diagonal entry is looked at
findPivotDiagonal(aug, col, row, pivotRow) ==
  IF isZero(aug[col][col]) THEN 0 ELSE col

\* faulty variant of findPivot: the first nonzero entry, numeric or not
findPivotFirst(aug, col, row, pivotRow) ==
  IF \A r \in col..Len(aug) : isZero(aug[r][col]) THEN 0
  ELSE CHOOSE r \in col..Len(aug) :
         ~isZero(aug[r][col]) /\ \A q \in col..(r - 1) : isZero(aug[q][col])

RECURSIVE findPivot(_, _, _, _)
findPivot(aug, col, row, pivotRow) ==
  IF row > Len(aug) THEN pivotRow
  ELSE findPivot(aug, col, row + 1,
         IF ~isZero(aug[row][col])
            /\ (\/ pivotRow = 0
                \/ (isNumeric(aug[row][col]) /\ ~isNumeric(aug[pivotRow][col])))
           THEN row ELSE pivotRow)

swapRows(aug, i, j) ==
  [k \in 1..Len(aug) |-> IF k = i THEN aug[j] ELSE IF k = j THEN aug[i] ELSE aug[k]]

\* faulty variant of eliminateBelow: the right-hand-side column is left
\* as it was
eliminateBelowNoRhs(aug, col) ==
  LET n == Len(aug)
  IN  [row \in 1..n |->
         IF row <= col \/ isZero(aug[row][col]) THEN aug[row]
         ELSE LET factor == divide(aug[row][col], aug[col][col])
              IN  [j \in 1..(n + 1) |->
                     IF j < col \/ j = n + 1 THEN aug[row][j]
                     ELSE Invoke("subtract", <<aug[row][j], Invoke("multiply", <<factor, aug[col][j]>>)>>)]]

\* "Eliminate below": every row under the pivot row, columns col..n+1
eliminateBelow(aug, col) ==
  LET n == Len(aug)
  IN  [row \in 1..n |->
         IF row <= col \/ isZero(aug[row][col]) THEN aug[row]
         ELSE LET factor == divide(aug[row][col], aug[col][col])
              IN  [j \in 1..(n + 1) |->
                     IF j < col THEN aug[row][j]
                     ELSE Invoke("subtract", <<aug[row][j], Invoke("multiply", <<factor, aug[col][j]>>)>>)]]

\* forward elimination from column col on: [ok, aug]
RECURSIVE forwardEliminate(_, _)
forwardEliminate(aug, col) ==
  IF col > Len(aug) THEN [ok |-> TRUE, aug |-> aug]
  ELSE LET pivotRow == findPivot(aug, col, col, 0)
       IN  IF pivotRow = 0 THEN [ok |-> FALSE, aug |-> aug]
           ELSE forwardEliminate(
                  Invoke("eliminateBelow", <<IF pivotRow # col THEN swapRows(aug, col, pivotRow)
                                                   ELSE aug, col>>),
                  col + 1)

\* the columns of forward elimination from column col on, each with the
\* matrix it starts from and the pivot row found in it
RECURSIVE pivotTrace(_, _)
pivotTrace(aug, col) ==
  IF col > Len(aug) THEN <<>>
  ELSE LET pivotRow == findPivot(aug, col, col, 0)
           here == [aug |-> aug, col |-> col, pivotRow |-> pivotRow]
       IN  IF pivotRow = 0 THEN <<here>>
           ELSE <<here>> \o pivotTrace(
                  Invoke("eliminateBelow", <<IF pivotRow # col THEN swapRows(aug, col, pivotRow)
                                                   ELSE aug, col>>),
                  col + 1)

\* sum = aug[row][n+1] - SUM_{col > row} aug[row][col] * x[col]
RECURSIVE backSum(_, _, _, _, _)
backSum(aug, x, row, col, sum) ==
  IF col > Len(aug) THEN sum
  ELSE backSum(aug, x, row, col + 1,
               Invoke("subtract", <<sum, Invoke("multiply", <<aug[row][col], x[col]>>)>>))

\* back substitution from row down to 1; x is filled from the end
RECURSIVE backSubstitute(_, _, _)
backSubstitute(aug, row, x) ==
  IF row < 1 THEN [ok |-> TRUE, x |-> x]
  ELSE IF isZero(aug[row][row]) THEN [ok |-> FALSE, x |-> <<>>]
  ELSE backSubstitute(aug, row - 1,
         [x EXCEPT ![row] = divide(backSum(aug, x, row, row + 1,
                                           aug[row][Len(aug) + 1]),
                                   aug[row][row])])

\* the augmented matrix [A | b]: new row arrays holding the entries of A
\* and b
augmented(A, b) ==
  [i \in 1..Len(b) |-> [j \in 1..(Len(b) + 1) |->
     IF j <= Len(b) THEN A[i][j] ELSE b[i]]]

solveLinearSystem(A, b) ==
  LET n == Len(b)
  IN  IF n = 0 THEN [ok |-> TRUE, x |-> <<>>]
      ELSE LET fwd == forwardEliminate(augmented(A, b), 1)
           IN  IF ~fwd.ok THEN [ok |-> FALSE, x |-> <<>>]
               ELSE backSubstitute(fwd.aug, n, [i \in 1..n |-> ZERO])

\* faulty variant of callerArrays: aug is made of the caller's own rows
\* (aug.push(A[i]) with b[i] pushed onto it), so the swaps and the
\* elimination show through A
callerArraysShared(A, b) ==
  IF Len(b) = 0 THEN [A |-> A, b |-> b]
  ELSE [A |-> forwardEliminate(augmented(A, b), 1).aug, b |-> b]

\* the arrays the caller passed, as they are after the call: A and b are
\* only read, every write goes to a row of aug, to aug itself or to x
callerArrays(A, b) == [A |-> A, b |-> b]

(***************************************************************************)
(* Values of the circuit data: number | string | undefined.                *)
(* [t, fin, n, s]: t the JS type, n the value of a finite number, fin =    *)
(* FALSE for the number Infinity, s the characters of a string.            *)
(***************************************************************************)
JsNum(i) == [t |-> "number", fin |-> TRUE, n |-> i, s |-> <<>>]
JsInfinity == [t |-> "number", fin |-> FALSE, n |-> 0, s |-> <<>>]
JsStr(chars) == [t |-> "string", fin |-> TRUE, n |-> 0, s |-> chars]
JsUndefined == [t |-> "undefined", fin |-> TRUE, n |-> 0, s |-> <<>>]

StrInfinity == <<"I", "n", "f", "i", "n", "i", "t", "y">>
StrInfGlyph == <<"U221E">>
StrInf == <<"i", "n", "f">>

IsSign(c) == c \in {"+", "-"}
IsDigit(c) == c \in {"0", "1", "2", "3", "4", "5", "6", "7", "8", "9"}
IsLetter(c) == c \in {"I", "V", "f", "i", "n", "r", "s", "t", "y"}
DigitVal(c) == CharRank(c) - 3

RECURSIVE DigitsVal(_, _)
DigitsVal(ds, acc) ==
  IF ds = <<>> THEN acc ELSE DigitsVal(Tail(ds), acc * 10 + DigitVal(Head(ds)))

AllDigits(ds) == \A i \in 1..Len(ds) : IsDigit(ds[i])

\* Number(s) on the strings over Chars: [nan, fin, n]
JsNumber(str) ==
  LET signed == Len(str) > 0 /\ IsSign(str[1])
      body == IF signed THEN Tail(str) ELSE str
      sgn == IF signed /\ str[1] = "-" THEN -1 ELSE 1
  IN  IF str = <<>> THEN [nan |-> FALSE, fin |-> TRUE, n |-> 0]
      ELSE IF body # <<>> /\ AllDigits(body)
        THEN [nan |-> FALSE, fin |-> TRUE, n |-> sgn * DigitsVal(body, 0)]
      ELSE IF body = StrInfinity THEN [nan |-> FALSE, fin |-> FALSE, n |-> 0]
      ELSE [nan |-> TRUE, fin |-> TRUE, n |-> 0]

\* end of the run of non-sign characters that starts at index i
RECURSIVE RunEnd(_, _)
RunEnd(str, i) ==
  IF i + 1 <= Len(str) /\ ~IsSign(str[i + 1]) THEN RunEnd(str, i + 1) ELSE i

\* expr.match(/[+-]?[^+-]+/g): the tokens from index i on
RECURSIVE Tokens(_, _)
Tokens(str, i) ==
  IF i > Len(str) THEN <<>>
  ELSE IF IsSign(str[i]) THEN
    IF i + 1 <= Len(str) /\ ~IsSign(str[i + 1])
      THEN <<SubSeq(str, i, RunEnd(str, i + 1))>> \o Tokens(str, RunEnd(str, i + 1) + 1)
      ELSE Tokens(str, i + 1)
  ELSE <<SubSeq(str, i, RunEnd(str, i))>> \o Tokens(str, RunEnd(str, i) + 1)

\* length of the longest prefix of digits
RECURSIVE DigitPrefix(_)
DigitPrefix(str) ==
  IF str # <<>> /\ IsDigit(Head(str)) THEN 1 + DigitPrefix(Tail(str)) ELSE 0

\* one token of Polynomial.parse, as the polynomial it adds
ParseToken(tok) ==
  LET num == Invoke("JsNumber", <<tok>>)
      signed == IsSign(tok[1])
      unsignedTok == IF signed THEN Tail(tok) ELSE tok
      nd == DigitPrefix(unsignedTok)
      coefStr == SubSeq(tok, 1, nd + (IF signed THEN 1 ELSE 0))
      varName == SubSeq(unsignedTok, nd + 1, Len(unsignedTok))
      \* /^([+-]?\d*\.?\d*)([a-zA-Z_]\w*)$/ : the glyph is no word character
      matches == /\ varName # <<>> /\ IsLetter(varName[1])
                 /\ \A i \in 1..Len(varName) : varName[i] # "U221E"
      coef == IF coefStr = <<>> \/ coefStr = <<"+">> THEN N1
              ELSE IF coefStr = <<"-">> THEN NumOf(-1)
              ELSE NumOf(Invoke("JsNumber", <<coefStr>>).n)
  IN  IF ~num.nan THEN PolyConstant(NumOf(num.n))
      ELSE IF matches THEN Invoke("PolyScale", <<PolyVariable(varName), coef>>)
      ELSE PolyVariable(tok)

RECURSIVE PolyParseLoop(_, _, _)
PolyParseLoop(tokens, i, result) ==
  IF i > Len(tokens) THEN result
  ELSE PolyParseLoop(tokens, i + 1, Invoke("PolyAdd", <<result, Invoke("ParseToken", <<tokens[i]>>)>>))

\* Polynomial.parse on a string without white space
PolyParse(expr) ==
  IF expr = <<>> \/ expr = <<"0">> THEN PolyZero
  ELSE IF ~Invoke("JsNumber", <<expr>>).nan THEN PolyConstant(NumOf(Invoke("JsNumber", <<expr>>).n))
  ELSE PolyParseLoop(Tokens(expr, 1), 1, PolyZero)

fromNumber(v) ==
  IF ~v.fin THEN INFINITY
  ELSE RationalExpr(PolyConstant(NumOf(v.n)), PolyConstant(N1))

fromString(str) ==
  IF str = StrInfinity \/ str = StrInfGlyph \/ str = StrInf THEN INFINITY
  ELSE LET asNum == Invoke("JsNumber", <<str>>)
       IN  IF ~asNum.nan /\ str # <<>>
             THEN Invoke("fromNumber", <<[fin |-> asNum.fin, n |-> asNum.n]>>)
             ELSE RationalExpr(Invoke("PolyParse", <<str>>), PolyConstant(N1))

\* RationalExpr.parse
parse(value) ==
  IF value.t = "number" THEN Invoke("fromNumber", <<value>>) ELSE Invoke("fromString", <<value.s>>)

(***************************************************************************)
(* Circuit: [nodes, edges]; a node is [id, potential], an edge is          *)
(* [id, nodeA, nodeB, resistance].                                         *)
(***************************************************************************)
allNodeIds(circuit) == [i \in 1..Len(circuit.nodes) |-> circuit.nodes[i].id]
NodeIdSet(circuit) == {circuit.nodes[i].id : i \in 1..Len(circuit.nodes)}

\* some enumeration of a finite set (iteration order of a JS Set whose
\* order does not reach the result)
RECURSIVE SetToSeq(_)
SetToSeq(S) ==
  IF S = {} THEN <<>>
  ELSE LET x == CHOOSE y \in S : TRUE IN <<x>> \o SetToSeq(S \ {x})

(***************************************************************************)
(* UnionFind: [parent, rank], two Maps keyed by node id                    *)
(***************************************************************************)
UnionFind(ids) ==
  [parent |-> [id \in {ids[i] : i \in 1..Len(ids)} |-> id],
   rank |-> [id \in {ids[i] : i \in 1..Len(ids)} |-> 0]]

RECURSIVE findRoot(_, _)
findRoot(parent, root) ==
  IF parent[root] = root THEN root ELSE findRoot(parent, parent[root])

\* path compression: re-point cur and its ancestors to root
RECURSIVE compress(_, _, _)
compress(parent, cur, root) ==
  IF cur = root THEN parent
  ELSE compress([parent EXCEPT ![cur] = root], parent[cur], root)

\* find returns the root and leaves the structure compressed: [root, uf]
find(uf, x) ==
  LET root == findRoot(uf.parent, x)
  IN  [root |-> root,
       uf |-> [uf EXCEPT !.parent = compress(uf.parent, x, root)]]

\* faulty variant of union: on equal ranks the rank grows but the roots are
\* not linked ("this.parent.set(rb, ra)" left out)
unionNoTieLink(uf, a, b) ==
  LET fa == Invoke("find", <<uf, a>>)
      fb == Invoke("find", <<fa.uf, b>>)
      ra == fa.root
      rb == fb.root
      u == fb.uf
  IN  IF ra = rb THEN u
      ELSE IF u.rank[ra] < u.rank[rb] THEN [u EXCEPT !.parent[ra] = rb]
      ELSE IF u.rank[ra] > u.rank[rb] THEN [u EXCEPT !.parent[rb] = ra]
      ELSE [u EXCEPT !.rank[ra] = u.rank[ra] + 1]

\* faulty variant of union: on equal ranks the roots are linked but the
\* rank stays ("this.rank.set(ra, rankA + 1)" left out)
unionRankKept(uf, a, b) ==
  LET fa == Invoke("find", <<uf, a>>)
      fb == Invoke("find", <<fa.uf, b>>)
      ra == fa.root
      rb == fb.root
      u == fb.uf
  IN  IF ra = rb THEN u
      ELSE IF u.rank[ra] < u.rank[rb] THEN [u EXCEPT !.parent[ra] = rb]
      ELSE [u EXCEPT !.parent[rb] = ra]

union(uf, a, b) ==
  LET fa == Invoke("find", <<uf, a>>)
      fb == Invoke("find", <<fa.uf, b>>)
      ra == fa.root
      rb == fb.root
      u == fb.uf
  IN  IF ra = rb THEN u
      ELSE IF u.rank[ra] < u.rank[rb] THEN [u EXCEPT !.parent[ra] = rb]
      ELSE IF u.rank[ra] > u.rank[rb] THEN [u EXCEPT !.parent[rb] = ra]
      ELSE [u EXCEPT !.parent[rb] = ra, !.rank[ra] = u.rank[ra] + 1]

\* connected returns [val, uf]
connected(uf, a, b) ==
  LET fa == Invoke("find", <<uf, a>>)
      fb == Invoke("find", <<fa.uf, b>>)
  IN  [val |-> fa.root = fb.root, uf |-> fb.uf]

\* faulty variant of the union pass: every edge that is not open merges
\* its end nodes
RECURSIVE unionClosedEdges(_, _, _)
unionClosedEdges(uf, edges, i) ==
  IF i > Len(edges) THEN uf
  ELSE unionClosedEdges(
         IF ~isInfinity(parse(edges[i].resistance))
           THEN Invoke("union", <<uf, edges[i].nodeA, edges[i].nodeB>>) ELSE uf,
         edges, i + 1)

\* "for (const edge of circuit.edges) if (parse(r).isZero()) uf.union(...)"
RECURSIVE unionZeroEdges(_, _, _)
unionZeroEdges(uf, edges, i) ==
  IF i > Len(edges) THEN uf
  ELSE unionZeroEdges(
         IF isZero(parse(edges[i].resistance))
           THEN Invoke("union", <<uf, edges[i].nodeA, edges[i].nodeB>>) ELSE uf,
         edges, i + 1)

\* "for (const id of allNodeIds) repSet.add(uf.find(id))": [reps, uf],
\* reps in the insertion order of the Set
RECURSIVE buildRepSet(_, _, _, _)
buildRepSet(uf, ids, i, reps) ==
  IF i > Len(ids) THEN [reps |-> reps, uf |-> uf]
  ELSE LET f == Invoke("find", <<uf, ids[i]>>)
       IN  buildRepSet(f.uf, ids, i + 1,
             IF \E k \in 1..Len(reps) : reps[k] = f.root THEN reps
             ELSE Append(reps, f.root))

\* indexMap.get(rep): the 1-based index, 0 standing for undefined
indexOf(reps, rep) ==
  IF \E k \in 1..Len(reps) : reps[k] = rep
    THEN CHOOSE k \in 1..Len(reps) : reps[k] = rep
    ELSE 0

(***************************************************************************)
(* areConnected: breadth-first search over the adjacency of all edges      *)
(***************************************************************************)
adjacency(circuit) ==
  [id \in NodeIdSet(circuit) |->
     {circuit.edges[i].nodeB : i \in {k \in 1..Len(circuit.edges) :
                                        circuit.edges[k].nodeA = id}}
     \cup
     {circuit.edges[i].nodeA : i \in {k \in 1..Len(circuit.edges) :
                                        circuit.edges[k].nodeB = id}}]

RECURSIVE bfs(_, _, _, _)
bfs(adj, queue, visited, nodeBId) ==
  IF queue = <<>> THEN FALSE
  ELSE LET cur == Head(queue)
           fresh == adj[cur] \ visited
       IN  IF cur = nodeBId THEN TRUE
           ELSE bfs(adj, Tail(queue) \o SetToSeq(fresh),
                    visited \cup fresh, nodeBId)

areConnected(circuit, nodeAId, nodeBId) ==
  bfs(adjacency(circuit), <<nodeAId>>, {nodeAId}, nodeBId)

(***************************************************************************)
(* calculateEquivalentResistance: [isNull, value]                          *)
(***************************************************************************)
Null == [isNull |-> TRUE, value |-> ZERO]
Value(v) == [isNull |-> FALSE, value |-> v]

zeroMatrix(n) == [i \in 1..n |-> [j \in 1..n |-> ZERO]]
zeroVector(n) == [i \in 1..n |-> ZERO]

\* faulty variant of stampEdge: an edge to the grounded node is not stamped
stampEdgeNoGround(Y, edge, uf, reps) ==
  LET r == parse(edge.resistance)
      G == Invoke("reciprocal", <<r>>)
      rA == Invoke("find", <<uf, edge.nodeA>>).root
      rB == Invoke("find", <<uf, edge.nodeB>>).root
      iA == indexOf(reps, rA)
      iB == indexOf(reps, rB)
  IN  IF isZero(r) THEN Y
      ELSE IF isInfinity(r) THEN Y
      ELSE IF rA = rB THEN Y
      ELSE IF iA # 0 /\ iB # 0 THEN
        [Y EXCEPT ![iA][iA] = Invoke("add", <<@, G>>),
                  ![iB][iB] = Invoke("add", <<@, G>>),
                  ![iA][iB] = Invoke("subtract", <<@, G>>),
                  ![iB][iA] = Invoke("subtract", <<@, G>>)]
      ELSE Y

\* faulty variant of stampEdge: the diagonal is assigned, not accumulated, so
\* that of several edges on a node only the last one counts
stampEdgeOverwrite(Y, edge, uf, reps) ==
  LET r == parse(edge.resistance)
      G == Invoke("reciprocal", <<r>>)
      rA == Invoke("find", <<uf, edge.nodeA>>).root
      rB == Invoke("find", <<uf, edge.nodeB>>).root
      iA == indexOf(reps, rA)
      iB == indexOf(reps, rB)
  IN  IF isZero(r) THEN Y
      ELSE IF isInfinity(r) THEN Y
      ELSE IF rA = rB THEN Y
      ELSE IF iA # 0 /\ iB # 0 THEN
        [Y EXCEPT ![iA][iA] = G,
                  ![iB][iB] = G,
                  ![iA][iB] = Invoke("subtract", <<@, G>>),
                  ![iB][iA] = Invoke("subtract", <<@, G>>)]
      ELSE IF iA # 0 /\ iB = 0 THEN [Y EXCEPT ![iA][iA] = G]
      ELSE IF iA = 0 /\ iB # 0 THEN [Y EXCEPT ![iB][iB] = G]
      ELSE Y

\* faulty variant of stampEdge: only one of the two off-diagonal entries is
\* stamped
stampEdgeOneSided(Y, edge, uf, reps) ==
  LET r == parse(edge.resistance)
      G == Invoke("reciprocal", <<r>>)
      rA == Invoke("find", <<uf, edge.nodeA>>).root
      rB == Invoke("find", <<uf, edge.nodeB>>).root
      iA == indexOf(reps, rA)
      iB == indexOf(reps, rB)
  IN  IF isZero(r) THEN Y
      ELSE IF isInfinity(r) THEN Y
      ELSE IF rA = rB THEN Y
      ELSE IF iA # 0 /\ iB # 0 THEN
        [Y EXCEPT ![iA][iA] = Invoke("add", <<@, G>>),
                  ![iB][iB] = Invoke("add", <<@, G>>),
                  ![iA][iB] = Invoke("subtract", <<@, G>>)]
      ELSE IF iA # 0 /\ iB = 0 THEN [Y EXCEPT ![iA][iA] = Invoke("add", <<@, G>>)]
      ELSE IF iA = 0 /\ iB # 0 THEN [Y EXCEPT ![iB][iB] = Invoke("add", <<@, G>>)]
      ELSE Y

\* the admittance stamp of one edge of calculateEquivalentResistance
\* (uf has been compressed by buildRepSet: find re-points nothing)
stampEdge(Y, edge, uf, reps) ==
  LET r == parse(edge.resistance)
      G == Invoke("reciprocal", <<r>>)
      rA == Invoke("find", <<uf, edge.nodeA>>).root
      rB == Invoke("find", <<uf, edge.nodeB>>).root
      iA == indexOf(reps, rA)
      iB == indexOf(reps, rB)
  IN  IF isZero(r) THEN Y
      ELSE IF isInfinity(r) THEN Y
      ELSE IF rA = rB THEN Y
      ELSE IF iA # 0 /\ iB # 0 THEN
        [Y EXCEPT ![iA][iA] = Invoke("add", <<@, G>>),
                  ![iB][iB] = Invoke("add", <<@, G>>),
                  ![iA][iB] = Invoke("subtract", <<@, G>>),
                  ![iB][iA] = Invoke("subtract", <<@, G>>)]
      ELSE IF iA # 0 /\ iB = 0 THEN [Y EXCEPT ![iA][iA] = Invoke("add", <<@, G>>)]
      ELSE IF iA = 0 /\ iB # 0 THEN [Y EXCEPT ![iB][iB] = Invoke("add", <<@, G>>)]
      ELSE Y

RECURSIVE stampEdges(_, _, _, _, _)
stampEdges(Y, edges, i, uf, reps) ==
  IF i > Len(edges) THEN Y
  ELSE stampEdges(Invoke("stampEdge", <<Y, edges[i], uf, reps>>), edges, i + 1, uf, reps)

\* the part of calculateEquivalentResistance after the connectivity check:
\* union-find reduction ...
reducedResistance(circuit, nodeAId, nodeBId) ==
  LET ids == allNodeIds(circuit)
      conn == connected(unionZeroEdges(UnionFind(ids), circuit.edges, 1),
                        nodeAId, nodeBId)
  IN  IF conn.val THEN Value(ZERO)
      ELSE Invoke("groundedSystem",
             <<circuit, nodeAId, nodeBId, buildRepSet(conn.uf, ids, 1, <<>>)>>)

\* ... the representatives without B's (rs is the repSet and the compressed
\* union-find), A's index among them ...
groundedSystem(circuit, nodeAId, nodeBId, rs) ==
  LET repA == Invoke("find", <<rs.uf, nodeAId>>).root
      repB == Invoke("find", <<rs.uf, nodeBId>>).root
      reps == SelectSeq(rs.reps, LAMBDA id : id # repB)
  IN  Invoke("injectAndSolve", <<circuit, rs.uf, reps, indexOf(reps, repA)>>)

\* ... admittance matrix, unit current injected at A, solution read at A
injectAndSolve(circuit, uf, reps, idxA) ==
  LET n == Len(reps)
      V == Invoke("solveLinearSystem",
             <<stampEdges(zeroMatrix(n), circuit.edges, 1, uf, reps),
               [zeroVector(n) EXCEPT ![idxA] = ONE]>>)
  IN  IF n = 0 THEN Value(ZERO)
      ELSE IF idxA = 0 THEN Value(ZERO)
      ELSE IF ~V.ok THEN Value(INFINITY)
      ELSE Value(V.x[idxA])

\* faulty variant: the same-node shortcut is taken before the node lookup
calcSameNodeFirst(circuit, nodeAId, nodeBId) ==
  IF nodeAId = nodeBId THEN Value(ZERO)
  ELSE IF nodeAId \notin NodeIdSet(circuit) \/ nodeBId \notin NodeIdSet(circuit)
    THEN Null
  ELSE IF ~Invoke("areConnected", <<circuit, nodeAId, nodeBId>>) THEN Value(INFINITY)
  ELSE Invoke("reducedResistance", <<circuit, nodeAId, nodeBId>>)

\* faulty variant: the same-node shortcut answers INFINITY
calcSameNodeOpen(circuit, nodeAId, nodeBId) ==
  IF nodeAId \notin NodeIdSet(circuit) \/ nodeBId \notin NodeIdSet(circuit)
    THEN Null
  ELSE IF nodeAId = nodeBId THEN Value(INFINITY)
  ELSE IF ~Invoke("areConnected", <<circuit, nodeAId, nodeBId>>) THEN Value(INFINITY)
  ELSE Invoke("reducedResistance", <<circuit, nodeAId, nodeBId>>)

\* faulty variant: nodes that are not connected answer ZERO
calcApartShorted(circuit, nodeAId, nodeBId) ==
  IF nodeAId \notin NodeIdSet(circuit) \/ nodeBId \notin NodeIdSet(circuit)
    THEN Null
  ELSE IF nodeAId = nodeBId THEN Value(ZERO)
  ELSE IF ~Invoke("areConnected", <<circuit, nodeAId, nodeBId>>) THEN Value(ZERO)
  ELSE Invoke("reducedResistance", <<circuit, nodeAId, nodeBId>>)

calculateEquivalentResistance(circuit, nodeAId, nodeBId) ==
  IF nodeAId \notin NodeIdSet(circuit) \/ nodeBId \notin NodeIdSet(circuit)
    THEN Null
  ELSE IF nodeAId = nodeBId THEN Value(ZERO)
  ELSE IF ~Invoke("areConnected", <<circuit, nodeAId, nodeBId>>) THEN Value(INFINITY)
  ELSE Invoke("reducedResistance", <<circuit, nodeAId, nodeBId>>)

(***************************************************************************)
(* calculateCurrents: a Map from edge id to RationalExpr                   *)
(***************************************************************************)
\* faulty variant of hasPotential: the empty string counts as a potential
hasPotentialDefined(node) ==
  node.potential.t # "undefined"

\* "node.potential !== undefined && node.potential !== ''"
hasPotential(node) ==
  /\ node.potential.t # "undefined"
  /\ ~(node.potential.t = "string" /\ node.potential.s = <<>>)

\* knownPotentials: Map node id -> parsed potential, in node order
RECURSIVE parsePotentials(_, _, _)
parsePotentials(nodes, i, known) ==
  IF i > Len(nodes) THEN known
  ELSE parsePotentials(nodes, i + 1,
         IF hasPotential(nodes[i])
           THEN MapSet(known, nodes[i].id, parse(nodes[i].potential))
           ELSE known)

\* the short-circuit check: [groups, groupPotential, uf]
RECURSIVE findShortCircuits(_, _, _, _, _)
findShortCircuits(known, i, uf, groups, groupPotential) ==
  IF i > Len(known) THEN [groups |-> groups, uf |-> uf]
  ELSE LET f == Invoke("find", <<uf, known[i][1]>>)
           pot == known[i][2]
       IN  IF MapHas(groupPotential, f.root)
             THEN findShortCircuits(known, i + 1, f.uf,
                    IF ~Invoke("equals", <<MapGet(groupPotential, f.root), pot>>)
                      THEN groups \cup {f.root} ELSE groups,
                    groupPotential)
             ELSE findShortCircuits(known, i + 1, f.uf, groups,
                    MapSet(groupPotential, f.root, pot))

\* "For short-circuit edges, set INFINITY current": [result, uf]
RECURSIVE markShortCircuits(_, _, _, _, _)
markShortCircuits(edges, i, uf, groups, result) ==
  IF i > Len(edges) THEN [result |-> result, uf |-> uf]
  ELSE IF isZero(parse(edges[i].resistance)) THEN
    LET f == Invoke("find", <<uf, edges[i].nodeA>>)
    IN  markShortCircuits(edges, i + 1, f.uf, groups,
          IF f.root \in groups THEN MapSet(result, edges[i].id, INFINITY)
                               ELSE result)
  ELSE markShortCircuits(edges, i + 1, uf, groups, result)

\* faulty variant of buildRepKnown: the short-circuited groups keep their
\* potential
RECURSIVE buildRepKnownShorted(_, _, _, _, _)
buildRepKnownShorted(known, i, uf, groups, repKnown) ==
  IF i > Len(known) THEN repKnown
  ELSE buildRepKnownShorted(known, i + 1, uf, groups,
         MapSet(repKnown, Invoke("find", <<uf, known[i][1]>>).root, known[i][2]))

\* repKnown: Map rep -> potential of the groups that are not short-circuited
\* (uf has been compressed by buildRepSet: find re-points nothing)
RECURSIVE buildRepKnown(_, _, _, _, _)
buildRepKnown(known, i, uf, groups, repKnown) ==
  IF i > Len(known) THEN repKnown
  ELSE LET rep == Invoke("find", <<uf, known[i][1]>>).root
       IN  buildRepKnown(known, i + 1, uf, groups,
             IF rep \notin groups THEN MapSet(repKnown, rep, known[i][2])
                                  ELSE repKnown)

\* faulty variant of stampCurrentEdge: the right-hand side receives G, not
\* G times the known potential
stampCurrentEdgeNoPotential(Yb, edge, uf, interiorReps, repKnown) ==
  LET r == parse(edge.resistance)
      G == Invoke("reciprocal", <<r>>)
      rA == Invoke("find", <<uf, edge.nodeA>>).root
      rB == Invoke("find", <<uf, edge.nodeB>>).root
      iA == indexOf(interiorReps, rA)
      iB == indexOf(interiorReps, rB)
  IN  IF isZero(r) \/ isInfinity(r) THEN Yb
      ELSE IF rA = rB THEN Yb
      ELSE IF iA # 0 /\ iB # 0 THEN
        [Yb EXCEPT !.Y[iA][iA] = Invoke("add", <<@, G>>),
                   !.Y[iB][iB] = Invoke("add", <<@, G>>),
                   !.Y[iA][iB] = Invoke("subtract", <<@, G>>),
                   !.Y[iB][iA] = Invoke("subtract", <<@, G>>)]
      ELSE IF iA # 0 /\ MapHas(repKnown, rB) THEN
        [Yb EXCEPT !.Y[iA][iA] = Invoke("add", <<@, G>>), !.b[iA] = Invoke("add", <<@, G>>)]
      ELSE IF iB # 0 /\ MapHas(repKnown, rA) THEN
        [Yb EXCEPT !.Y[iB][iB] = Invoke("add", <<@, G>>), !.b[iB] = Invoke("add", <<@, G>>)]
      ELSE Yb

\* the stamp of one edge of calculateCurrents on [Y, b]
stampCurrentEdge(Yb, edge, uf, interiorReps, repKnown) ==
  LET r == parse(edge.resistance)
      G == Invoke("reciprocal", <<r>>)
      rA == Invoke("find", <<uf, edge.nodeA>>).root
      rB == Invoke("find", <<uf, edge.nodeB>>).root
      iA == indexOf(interiorReps, rA)
      iB == indexOf(interiorReps, rB)
  IN  IF isZero(r) \/ isInfinity(r) THEN Yb
      ELSE IF rA = rB THEN Yb
      ELSE IF iA # 0 /\ iB # 0 THEN
        [Yb EXCEPT !.Y[iA][iA] = Invoke("add", <<@, G>>),
                   !.Y[iB][iB] = Invoke("add", <<@, G>>),
                   !.Y[iA][iB] = Invoke("subtract", <<@, G>>),
                   !.Y[iB][iA] = Invoke("subtract", <<@, G>>)]
      ELSE IF iA # 0 /\ MapHas(repKnown, rB) THEN
        [Yb EXCEPT !.Y[iA][iA] = Invoke("add", <<@, G>>),
                   !.b[iA] = Invoke("add", <<@, Invoke("multiply", <<G, MapGet(repKnown, rB)>>)>>)]
      ELSE IF iB # 0 /\ MapHas(repKnown, rA) THEN
        [Yb EXCEPT !.Y[iB][iB] = Invoke("add", <<@, G>>),
                   !.b[iB] = Invoke("add", <<@, Invoke("multiply", <<G, MapGet(repKnown, rA)>>)>>)]
      ELSE Yb

RECURSIVE stampCurrentEdges(_, _, _, _, _, _)
stampCurrentEdges(Yb, edges, i, uf, interiorReps, repKnown) ==
  IF i > Len(edges) THEN Yb
  ELSE stampCurrentEdges(
         Invoke("stampCurrentEdge", <<Yb, edges[i], uf, interiorReps, repKnown>>),
         edges, i + 1, uf, interiorReps, repKnown)

\* allPotentials: repKnown, then the solved interior potentials
RECURSIVE addInterior(_, _, _, _)
addInterior(allPotentials, interiorReps, x, i) ==
  IF i > Len(interiorReps) THEN allPotentials
  ELSE addInterior(MapSet(allPotentials, interiorReps[i], x[i]),
                   interiorReps, x, i + 1)

\* faulty variant of edgeCurrent: an edge with an endpoint of unknown
\* potential is reported with current zero
edgeCurrentUnknownZero(result, edge, uf, allPotentials) ==
  LET r == parse(edge.resistance)
      rA == Invoke("find", <<uf, edge.nodeA>>).root
      rB == Invoke("find", <<uf, edge.nodeB>>).root
  IN  IF MapHas(result, edge.id) THEN result
      ELSE IF isInfinity(r) THEN MapSet(result, edge.id, ZERO)
      ELSE IF ~MapHas(allPotentials, rA) \/ ~MapHas(allPotentials, rB)
        THEN MapSet(result, edge.id, ZERO)
      ELSE LET diff == Invoke("subtract", <<MapGet(allPotentials, rA), MapGet(allPotentials, rB)>>)
           IN  IF isZero(r)
                 THEN MapSet(result, edge.id, IF isZero(diff) THEN ZERO ELSE INFINITY)
                 ELSE MapSet(result, edge.id, divide(diff, r))

\* faulty variant of edgeCurrent: the final pass leaves the zero-resistance
\* edges out
edgeCurrentNoShort(result, edge, uf, allPotentials) ==
  LET r == parse(edge.resistance)
      rA == Invoke("find", <<uf, edge.nodeA>>).root
      rB == Invoke("find", <<uf, edge.nodeB>>).root
  IN  IF MapHas(result, edge.id) THEN result
      ELSE IF isInfinity(r) THEN MapSet(result, edge.id, ZERO)
      ELSE IF ~MapHas(allPotentials, rA) \/ ~MapHas(allPotentials, rB) THEN result
      ELSE IF isZero(r) THEN result
      ELSE MapSet(result, edge.id,
                  divide(Invoke("subtract", <<MapGet(allPotentials, rA), MapGet(allPotentials, rB)>>), r))

\* the current of one edge in the final pass: the result Map, updated
edgeCurrent(result, edge, uf, allPotentials) ==
  LET r == parse(edge.resistance)
      rA == Invoke("find", <<uf, edge.nodeA>>).root
      rB == Invoke("find", <<uf, edge.nodeB>>).root
  IN  IF MapHas(result, edge.id) THEN result
      ELSE IF isInfinity(r) THEN MapSet(result, edge.id, ZERO)
      ELSE IF ~MapHas(allPotentials, rA) \/ ~MapHas(allPotentials, rB) THEN result
      ELSE LET diff == Invoke("subtract", <<MapGet(allPotentials, rA), MapGet(allPotentials, rB)>>)
           IN  IF isZero(r)
                 THEN MapSet(result, edge.id, IF isZero(diff) THEN ZERO ELSE INFINITY)
                 ELSE MapSet(result, edge.id, divide(diff, r))

RECURSIVE edgeCurrents(_, _, _, _, _)
edgeCurrents(result, edges, i, uf, allPotentials) ==
  IF i > Len(edges) THEN result
  ELSE edgeCurrents(Invoke("edgeCurrent", <<result, edges[i], uf, allPotentials>>),
                    edges, i + 1, uf, allPotentials)

\* the potentials calculateCurrents works out (rep -> potential) together
\* with its result: [result, allPotentials, uf].  First the known
\* potentials and the two early returns, the union of the zero-resistance
\* edges and the short-circuit check ...
currentAnalysis(circuit) ==
  LET known == parsePotentials(circuit.nodes, 1, <<>>)
      ids == allNodeIds(circuit)
  IN  IF Len(circuit.edges) = 0 \/ Len(known) < 2
        THEN [result |-> <<>>, allPotentials |-> <<>>, uf |-> UnionFind(ids)]
        ELSE Invoke("shortCircuitPass",
               <<circuit, known,
                 findShortCircuits(known, 1,
                   unionZeroEdges(UnionFind(ids), circuit.edges, 1), {}, <<>>)>>)

\* ... the edges of short-circuited groups get INFINITY, the repSet ...
shortCircuitPass(circuit, known, sc) ==
  LET marked == IF sc.groups # {}
                  THEN markShortCircuits(circuit.edges, 1, sc.uf, sc.groups, <<>>)
                  ELSE [result |-> <<>>, uf |-> sc.uf]
  IN  Invoke("nodalPass",
        <<circuit, known, sc.groups, marked.result,
          buildRepSet(marked.uf, allNodeIds(circuit), 1, <<>>)>>)

\* ... the known and the interior representatives ...
nodalPass(circuit, known, groups, result, rs) ==
  LET repKnown == buildRepKnown(known, 1, rs.uf, groups, <<>>)
  IN  Invoke("solvePass",
        <<circuit, result, rs.uf, repKnown,
          SelectSeq(rs.reps,
            LAMBDA rep : ~MapHas(repKnown, rep) /\ rep \notin groups)>>)

\* ... the nodal system of the interior representatives and its solution ...
solvePass(circuit, result, uf, repKnown, interiorReps) ==
  LET m == Len(interiorReps)
      Yb == stampCurrentEdges([Y |-> zeroMatrix(m), b |-> zeroVector(m)],
                              circuit.edges, 1, uf, interiorReps, repKnown)
  IN  Invoke("currentPass",
        <<circuit, result, uf, repKnown, interiorReps,
          IF m > 0 THEN Invoke("solveLinearSystem", <<Yb.Y, Yb.b>>)
                   ELSE [ok |-> FALSE, x |-> <<>>]>>)

\* ... all potentials, and the current of every edge
currentPass(circuit, result, uf, repKnown, interiorReps, interiorPotentials) ==
  LET allPotentials == IF interiorPotentials.ok
                         THEN addInterior(repKnown, interiorReps,
                                          interiorPotentials.x, 1)
                         ELSE repKnown
  IN  [result |-> edgeCurrents(result, circuit.edges, 1, uf, allPotentials),
       allPotentials |-> allPotentials, uf |-> uf]

calculateCurrents(circuit) == Invoke("currentAnalysis", <<circuit>>).result

(***************************************************************************)
(* Calls between the functions of the engine go through Invoke, so that    *)
(* every function body occurs once in the evaluation tree TLC builds,      *)
(* however many call sites the function has.                               *)
(***************************************************************************)
Invoke(f, args) ==
  CASE f = "PolyAdd" -> PolyAdd(args[1], args[2])
    [] f = "PolyScale" -> PolyScale(args[1], args[2])
    [] f = "PolyMultiply" -> PolyMultiply(args[1], args[2])
    [] f = "scalarRatio" -> scalarRatio(args[1], args[2])
    [] f = "toUnivariateCoefs" -> toUnivariateCoefs(args[1], args[2])
    [] f = "fromUnivariateCoefs" -> fromUnivariateCoefs(args[1], args[2])
    [] f = "polyRemainder" -> polyRemainder(args[1], args[2])
    [] f = "univariateGCD" -> univariateGCD(args[1], args[2])
    [] f = "polyDivide" -> polyDivide(args[1], args[2])
    [] f = "cancelUnivariateGCD" -> cancelUnivariateGCD(args[1], args[2], args[3])
    [] f = "simplify" -> simplify(args[1], args[2])
    [] f = "add" -> add(args[1], args[2])
    [] f = "subtract" -> subtract(args[1], args[2])
    [] f = "multiply" -> multiply(args[1], args[2])
    [] f = "reciprocal" -> reciprocal(args[1])
    [] f = "equals" -> equals(args[1], args[2])
    [] f = "eliminateBelow" -> eliminateBelow(args[1], args[2])
    [] f = "solveLinearSystem" -> solveLinearSystem(args[1], args[2])
    [] f = "JsNumber" -> JsNumber(args[1])
    [] f = "ParseToken" -> ParseToken(args[1])
    [] f = "PolyParse" -> PolyParse(args[1])
    [] f = "fromNumber" -> fromNumber(args[1])
    [] f = "fromString" -> fromString(args[1])
    [] f = "find" -> find(args[1], args[2])
    [] f = "union" -> union(args[1], args[2], args[3])
    [] f = "areConnected" -> areConnected(args[1], args[2], args[3])
    [] f = "stampEdge" -> stampEdge(args[1], args[2], args[3], args[4])
    [] f = "reducedResistance" -> reducedResistance(args[1], args[2], args[3])
    [] f = "groundedSystem" -> groundedSystem(args[1], args[2], args[3], args[4])
    [] f = "injectAndSolve" -> injectAndSolve(args[1], args[2], args[3], args[4])
    [] f = "calculateEquivalentResistance" -> calculateEquivalentResistance(args[1], args[2], args[3])
    [] f = "stampCurrentEdge" -> stampCurrentEdge(args[1], args[2], args[3], args[4], args[5])
    [] f = "edgeCurrent" -> edgeCurrent(args[1], args[2], args[3], args[4])
    [] f = "currentAnalysis" -> currentAnalysis(args[1])
    [] f = "shortCircuitPass" -> shortCircuitPass(args[1], args[2], args[3])
    [] f = "nodalPass" -> nodalPass(args[1], args[2], args[3], args[4], args[5])
    [] f = "solvePass" -> solvePass(args[1], args[2], args[3], args[4], args[5])
    [] f = "currentPass" ->
         currentPass(args[1], args[2], args[3], args[4], args[5], args[6])

(***************************************************************************)
(* State: the circuit a caller holds, the call in progress and what the    *)
(* last call returned.                                                     *)
(***************************************************************************)
VARIABLES circuit, call, rResult, cResult, input, output

vars == <<circuit, call, rResult, cResult, input, output>>

\* call: the function invoked, its node ids, how many times in a row it
\* has been invoked on the same arguments
NoCall == [op |-> "none", a |-> "", b |-> "", times |-> 0]
NoCurrents == [result |-> <<>>, allPotentials |-> <<>>]
\* input: the arguments a caller of the symbolic library holds (a linear
\* system, the operands of an operation); output: what the call returned
NoInput == <<>>
NoOutput == <<>>

\* bounds of the circuits drawn
MaxEdges == 2
MaxR == 4

NodePool == <<"a", "b", "c", "d">>
EdgePool == <<"e1", "e2", "e3", "e4", "e5">>

Node(id, potential) == [id |-> id, potential |-> potential]
Edge(id, nodeA, nodeB, resistance) ==
  [id |-> id, nodeA |-> nodeA, nodeB |-> nodeB, resistance |-> resistance]

\* the circuit with nodeA and nodeB of every edge exchanged
Flipped(c) ==
  [c EXCEPT !.edges = [i \in 1..Len(c.edges) |->
     Edge(c.edges[i].id, c.edges[i].nodeB, c.edges[i].nodeA,
          c.edges[i].resistance)]]

\* the nodes in the order perm (a sequence of indices into nodes)
Reordered(c, perm) ==
  [c EXCEPT !.nodes = [i \in 1..Len(perm) |-> c.nodes[perm[i]]]]

Perms(n) == {f \in [1..n -> 1..n] : \A i, j \in 1..n : f[i] = f[j] => i = j}

(***************************************************************************)
(* Generic circuits for the resistance query: up to three nodes without    *)
(* potentials, up to MaxEdges edges between distinct nodes.                *)
(***************************************************************************)
\* numeric resistances: zero, positive, negative, infinite (as the UI
\* stores it)
ResPool == {JsNum(0), JsNum(2), JsNum(-1), JsStr(StrInfinity)}

\* resistances of the circuits with a symbol, which have one or two edges
SymResPool == {JsStr(<<"r">>), JsNum(2), JsNum(0)}

GenericNodeCounts == {0, 1, 2, 3}

PlainNodes(n) == [i \in 1..n |-> Node(NodePool[i], JsUndefined)]

\* pairs of distinct nodes among the first n, in pool order
NodePairs(n) ==
  {<<NodePool[p[1]], NodePool[p[2]]>> :
     p \in {q \in (1..n) \X (1..n) : q[1] < q[2]}}

\* every sequence of k edges over the node pairs and the resistances given
EdgeSeqs(pairs, k, pool) ==
  {[i \in 1..k |-> Edge(EdgePool[i], f[i][1][1], f[i][1][2], f[i][2])] :
     f \in [1..k -> pairs \X pool]}

\* c has the nodes ns and k edges (k in counts) over the resistances in
\* pool, all of them in pool order or all of them reversed
DrawnOver(c, ns, pool, counts) ==
  \E k \in counts :
    \E es \in EdgeSeqs(NodePairs(Len(ns)), k, pool) :
      \/ c = [nodes |-> ns, edges |-> es]
      \/ c = Flipped([nodes |-> ns, edges |-> es])

GenericCircuit(c) ==
  \E n \in GenericNodeCounts : DrawnOver(c, PlainNodes(n), ResPool, 0..MaxEdges)

SymbolicCircuit(c) ==
  \E n \in GenericNodeCounts :
    DrawnOver(c, PlainNodes(n), SymResPool, {1, 2})

(***************************************************************************)
(* Series, parallel and bridge circuits with numeric resistances           *)
(***************************************************************************)
\* finite nonzero numbers / positive numbers
NonzeroVals == (((0 - MaxR)..MaxR) \ {0}) \cup {10, 20}
PositiveVals == (1..MaxR) \cup {10, 20}

\* a-(x)-b-(y)-c, each edge in either orientation, nodes in any order
SeriesCircuit(c) ==
  \E x \in NonzeroVals, y \in NonzeroVals, o \in BOOLEAN \X BOOLEAN, perm \in Perms(3) :
    c = Reordered([nodes |-> PlainNodes(3),
              edges |-> <<IF o[1] THEN Edge("e1", "a", "b", JsNum(x))
                                  ELSE Edge("e1", "b", "a", JsNum(x)),
                          IF o[2] THEN Edge("e2", "b", "c", JsNum(y))
                                  ELSE Edge("e2", "c", "b", JsNum(y))>>], perm)

\* two edges between a and b
ParallelCircuit(c) ==
  \E x \in PositiveVals, y \in PositiveVals, o \in BOOLEAN \X BOOLEAN, perm \in Perms(2) :
    c = Reordered([nodes |-> PlainNodes(2),
              edges |-> <<IF o[1] THEN Edge("e1", "a", "b", JsNum(x))
                                  ELSE Edge("e1", "b", "a", JsNum(x)),
                          IF o[2] THEN Edge("e2", "a", "b", JsNum(y))
                                  ELSE Edge("e2", "b", "a", JsNum(y))>>], perm)

\* the Wheatstone bridge a-b, a-c, b-d, c-d, b-c with five equal resistances
Bridge(R) ==
  [nodes |-> PlainNodes(4),
   edges |-> <<Edge("e1", "a", "b", JsNum(R)), Edge("e2", "a", "c", JsNum(R)),
               Edge("e3", "b", "d", JsNum(R)), Edge("e4", "c", "d", JsNum(R)),
               Edge("e5", "b", "c", JsNum(R))>>]

BridgeCircuit(c) ==
  \E R \in PositiveVals, perm \in Perms(4) :
    \/ c = Reordered(Bridge(R), perm)
    \/ c = Reordered(Flipped(Bridge(R)), perm)

(***************************************************************************)
(* Circuits with node potentials for the current analysis                  *)
(***************************************************************************)
\* potentials: absent, the number 0, a number
PotPool == {JsUndefined, JsNum(0), JsNum(5)}
CurResPool == {JsNum(0), JsNum(2), JsStr(StrInfinity)}

PotentialNodes(n) ==
  {[i \in 1..n |-> Node(NodePool[i], f[i])] : f \in [1..n -> PotPool]}

GenericCurCircuit(c) ==
  \E n \in GenericNodeCounts :
    \E ns \in PotentialNodes(n) : DrawnOver(c, ns, CurResPool, 0..MaxEdges)

\* A-(R1)-B-(R2)-C with potentials VA at a and VC at c, none at b
ChainPots == {-3, 0, 5, 12}

ChainCircuit(c) ==
  \E R1 \in PositiveVals, R2 \in PositiveVals, VA \in ChainPots, VC \in ChainPots,
     o \in BOOLEAN \X BOOLEAN, perm \in Perms(3) :
    c = Reordered([nodes |-> <<Node("a", JsNum(VA)), Node("b", JsUndefined),
                          Node("c", JsNum(VC))>>,
              edges |-> <<IF o[1] THEN Edge("e1", "a", "b", JsNum(R1))
                                  ELSE Edge("e1", "b", "a", JsNum(R1)),
                          IF o[2] THEN Edge("e2", "b", "c", JsNum(R2))
                                  ELSE Edge("e2", "c", "b", JsNum(R2))>>], perm)

\* four nodes, d without potential: a-b joined by e1, and e2 either b-c
\* (d is then isolated) or c-d (a component apart from a and b); the
\* potentials of a, b, c are absent (undefined, empty string), 0 or a number
IslandPots == {JsUndefined, JsStr(<<>>), JsNum(0), JsNum(5)}

IslandCircuit(c) ==
  \E pa \in IslandPots, pb \in IslandPots, pc \in IslandPots,
     x \in CurResPool, y \in CurResPool, far \in BOOLEAN, flip \in BOOLEAN :
    LET drawn == [nodes |-> <<Node("a", pa), Node("b", pb), Node("c", pc),
                              Node("d", JsUndefined)>>,
                  edges |-> <<Edge("e1", "a", "b", x),
                              IF far THEN Edge("e2", "c", "d", y)
                                     ELSE Edge("e2", "b", "c", y)>>]
    IN  c = IF flip THEN Flipped(drawn) ELSE drawn

(***************************************************************************)
(* Actions                                                                 *)
(***************************************************************************)
\* ids a caller may ask about; "d" is the id of no node of a circuit with
\* fewer than four nodes
QueryIds == {NodePool[i] : i \in 1..Len(NodePool)}

Quiet ==
  /\ call = NoCall
  /\ rResult = Null
  /\ cResult = NoCurrents
  /\ output = NoOutput

Idle ==
  /\ Quiet
  /\ input = NoInput

\* a caller invokes calculateEquivalentResistance(circuit, a, b)
CalcResistance(a, b) ==
  /\ call.op = "none"
  /\ call' = [op |-> "resistance", a |-> a, b |-> b, times |-> 1]
  /\ rResult' = Invoke("calculateEquivalentResistance", <<circuit, a, b>>)
  /\ UNCHANGED <<circuit, cResult, input, output>>

\* a caller invokes calculateCurrents(circuit)
CalcCurrents ==
  /\ call.op = "none"
  /\ call' = [op |-> "currents", a |-> "", b |-> "", times |-> 1]
  /\ cResult' = LET ca == Invoke("currentAnalysis", <<circuit>>)
                IN  [result |-> ca.result, allPotentials |-> ca.allPotentials]
  /\ UNCHANGED <<circuit, rResult, input, output>>

\* the caller drops the returned value; nothing of the call remains
Return ==
  /\ call.op # "none"
  /\ call' = NoCall
  /\ rResult' = Null
  /\ cResult' = NoCurrents
  /\ output' = NoOutput
  /\ UNCHANGED <<circuit, input>>

\* equivalent resistance on generic circuits
InitRes ==
  /\ \/ GenericCircuit(circuit)
     \/ SymbolicCircuit(circuit)
  /\ Idle
NextRes ==
  \/ \E a \in QueryIds, b \in QueryIds : CalcResistance(a, b)
  \/ Return
SpecRes == InitRes /\ [][NextRes]_vars

\* equivalent resistance on series, parallel and bridge circuits
InitLaws ==
  /\ \/ SeriesCircuit(circuit)
     \/ ParallelCircuit(circuit)
     \/ BridgeCircuit(circuit)
  /\ Idle
NextLaws ==
  \/ \E a \in QueryIds, b \in QueryIds : CalcResistance(a, b)
  \/ Return
SpecLaws == InitLaws /\ [][NextLaws]_vars

\* branch currents
InitCur ==
  /\ \/ GenericCurCircuit(circuit)
     \/ ChainCircuit(circuit)
     \/ IslandCircuit(circuit)
  /\ Idle
NextCur ==
  \/ CalcCurrents
  \/ Return
SpecCur == InitCur /\ [][NextCur]_vars

(***************************************************************************)
(* Vocabulary of the properties (graph notions stated on the circuit,      *)
(* independent of the algorithms above)                                    *)
(***************************************************************************)
EdgeIdx(c) == 1..Len(c.edges)

\* the nodes joined to a node of S by a path of edges with index in idx
RECURSIVE ReachVia(_, _, _)
ReachVia(c, S, idx) ==
  LET step == S \cup {c.edges[i].nodeB : i \in {k \in idx : c.edges[k].nodeA \in S}}
                \cup {c.edges[i].nodeA : i \in {k \in idx : c.edges[k].nodeB \in S}}
  IN  IF step = S THEN S ELSE ReachVia(c, step, idx)

Joined(c, a, b, idx) == b \in ReachVia(c, {a}, idx)

IsNumber(v) == v.t = "number" /\ v.fin
IsPositiveNumber(v) == IsNumber(v) /\ v.n > 0
ZeroEdgeIdx(c) == {i \in EdgeIdx(c) : isZero(parse(c.edges[i].resistance))}

\* the exact rational p/q as a RationalExpr (q # 0)
Frac(p, q) == RationalExpr(PolyConstant(NumOf(p)), PolyConstant(NumOf(q)))

ResistanceCall == call.op = "resistance"
QueryKnown == call.a \in NodeIdSet(circuit) /\ call.b \in NodeIdSet(circuit)

\* edge e joins the nodes x and y, in either orientation
Joins(e, x, y) == (e.nodeA = x /\ e.nodeB = y) \/ (e.nodeA = y /\ e.nodeB = x)

(***************************************************************************)
(* C1: calculateEquivalentResistance returns null exactly when A or B is   *)
(* not the id of a node of the circuit (also when A and B are the same     *)
(* absent id); in every other case it returns a value.                     *)
(***************************************************************************)
C1_NullIffUnknownNode ==
  ResistanceCall => (rResult.isNull <=> ~QueryKnown)

\* the same absent id asked twice, on a circuit with edges: null
C1_Witness ==
  /\ ResistanceCall
  /\ call.a = call.b
  /\ call.a \notin NodeIdSet(circuit)
  /\ Len(circuit.edges) > 0
  /\ rResult.isNull

(***************************************************************************)
(* C2: for every node n of the circuit the resistance between n and n is   *)
(* exact 0, whatever the edges.                                            *)
(***************************************************************************)
C2_SameNodeZero ==
  (ResistanceCall /\ QueryKnown /\ call.a = call.b)
    => (~rResult.isNull /\ isZero(rResult.value))

\* n against itself in a circuit whose edges are all infinite or symbolic
C2_Witness ==
  /\ ResistanceCall /\ QueryKnown /\ call.a = call.b
  /\ Len(circuit.edges) = MaxEdges
  /\ ZeroEdgeIdx(circuit) = {}
  /\ isZero(rResult.value)

(***************************************************************************)
(* C3: with only positive numeric resistances, nodes A and B joined by a   *)
(* path have a finite equivalent resistance, whatever other nodes the      *)
(* circuit contains.                                                       *)
(***************************************************************************)
C3_JoinedIsFinite ==
  (/\ ResistanceCall /\ QueryKnown
   /\ \A i \in EdgeIdx(circuit) : IsPositiveNumber(circuit.edges[i].resistance)
   /\ Joined(circuit, call.a, call.b, EdgeIdx(circuit)))
    => (~rResult.isNull /\ ~isInfinity(rResult.value))

(***************************************************************************)
(* C4: distinct nodes A and B joined by no path of edges (of any           *)
(* resistance) have equivalent resistance infinity.                        *)
(***************************************************************************)
C4_DisconnectedInfinity ==
  (/\ ResistanceCall /\ QueryKnown /\ call.a # call.b
   /\ ~Joined(circuit, call.a, call.b, EdgeIdx(circuit)))
    => (~rResult.isNull /\ isInfinity(rResult.value))

\* A and B apart while the circuit has edges elsewhere
C4_Witness ==
  /\ ResistanceCall /\ QueryKnown /\ call.a # call.b
  /\ ~Joined(circuit, call.a, call.b, EdgeIdx(circuit))
  /\ Len(circuit.edges) > 0
  /\ isInfinity(rResult.value)

(***************************************************************************)
(* C5: A and B joined by a path of edges whose parsed resistance is zero   *)
(* have equivalent resistance exact 0, whatever the other edges.           *)
(***************************************************************************)
C5_ZeroPathZero ==
  (/\ ResistanceCall /\ QueryKnown
   /\ Joined(circuit, call.a, call.b, ZeroEdgeIdx(circuit)))
    => (~rResult.isNull /\ isZero(rResult.value))

\* distinct A and B shorted, next to an edge that is not zero
C5_Witness ==
  /\ ResistanceCall /\ QueryKnown /\ call.a # call.b
  /\ Joined(circuit, call.a, call.b, ZeroEdgeIdx(circuit))
  /\ ZeroEdgeIdx(circuit) # EdgeIdx(circuit)
  /\ isZero(rResult.value)

(***************************************************************************)
(* Shapes of the circuit laws                                              *)
(***************************************************************************)
\* the number a numeric resistance or potential holds
NumberOf(v) == v.n

\* exactly two edges, i from A to a middle node m and j from m to B
SeriesVia(c, A, m, B, i, j) ==
  /\ NodeIdSet(c) = {A, m, B} /\ A # m /\ m # B /\ A # B
  /\ Len(c.nodes) = 3
  /\ EdgeIdx(c) = {i, j} /\ i # j
  /\ Joins(c.edges[i], A, m)
  /\ Joins(c.edges[j], m, B)

(***************************************************************************)
(* C6: series law.  For a-(x)-b-(y)-c with numeric x and y, both nonzero   *)
(* and x + y # 0, the resistance between a and c is exactly x + y.         *)
(***************************************************************************)
C6_SeriesLaw ==
  ResistanceCall =>
    \A m \in NodeIdSet(circuit), i \in EdgeIdx(circuit), j \in EdgeIdx(circuit) :
      LET x == circuit.edges[i].resistance
          y == circuit.edges[j].resistance
      IN  (/\ SeriesVia(circuit, call.a, m, call.b, i, j)
           /\ IsNumber(x) /\ IsNumber(y)
           /\ NumberOf(x) # 0 /\ NumberOf(y) # 0
           /\ NumberOf(x) + NumberOf(y) # 0)
            => (/\ ~rResult.isNull
                /\ rResult.value = Frac(NumberOf(x) + NumberOf(y), 1))

\* 10 and 20 in series asked end to end: 30
C6_Witness ==
  /\ ResistanceCall
  /\ \E m \in NodeIdSet(circuit), i \in EdgeIdx(circuit), j \in EdgeIdx(circuit) :
       /\ SeriesVia(circuit, call.a, m, call.b, i, j)
       /\ circuit.edges[i].resistance = JsNum(10)
       /\ circuit.edges[j].resistance = JsNum(20)
  /\ rResult.value = Frac(30, 1)

(***************************************************************************)
(* C7: parallel law.  Two edges of positive numeric resistance a and b     *)
(* between the same two nodes give a*b/(a+b); parallel edges are not       *)
(* merged into one.                                                        *)
(***************************************************************************)
C7_ParallelLaw ==
  ResistanceCall =>
    \A i \in EdgeIdx(circuit), j \in EdgeIdx(circuit) :
      LET a == circuit.edges[i].resistance
          b == circuit.edges[j].resistance
      IN  (/\ NodeIdSet(circuit) = {call.a, call.b} /\ call.a # call.b
           /\ Len(circuit.nodes) = 2
           /\ EdgeIdx(circuit) = {i, j} /\ i # j
           /\ Joins(circuit.edges[i], call.a, call.b)
           /\ Joins(circuit.edges[j], call.a, call.b)
           /\ IsPositiveNumber(a) /\ IsPositiveNumber(b))
            => (/\ ~rResult.isNull
                /\ rResult.value =
                     Frac(NumberOf(a) * NumberOf(b), NumberOf(a) + NumberOf(b)))

\* two equal resistances 10 in parallel: 5, not 10
C7_Witness ==
  /\ ResistanceCall
  /\ NodeIdSet(circuit) = {call.a, call.b} /\ call.a # call.b
  /\ Len(circuit.edges) = 2
  /\ \A i \in EdgeIdx(circuit) :
       /\ Joins(circuit.edges[i], call.a, call.b)
       /\ circuit.edges[i].resistance = JsNum(10)
  /\ rResult.value = Frac(5, 1)

(***************************************************************************)
(* C8: Wheatstone bridge.  Five equal positive resistances R on a-b, a-c,  *)
(* b-d, c-d and b-c give exactly R between a and d.                        *)
(***************************************************************************)
BridgePairs == <<<<"a", "b">>, <<"a", "c">>, <<"b", "d">>, <<"c", "d">>, <<"b", "c">>>>

\* the five bridge edges, each once, in any order and orientation
IsBridge(c) ==
  /\ NodeIdSet(c) = {"a", "b", "c", "d"} /\ Len(c.nodes) = 4
  /\ Len(c.edges) = Len(BridgePairs)
  /\ \A k \in 1..Len(BridgePairs) :
       \E i \in EdgeIdx(c) : Joins(c.edges[i], BridgePairs[k][1], BridgePairs[k][2])

C8_BalancedBridge ==
  (/\ ResistanceCall /\ call.a = "a" /\ call.b = "d"
   /\ IsBridge(circuit)
   /\ IsPositiveNumber(circuit.edges[1].resistance)
   /\ \A i \in EdgeIdx(circuit) :
        circuit.edges[i].resistance = circuit.edges[1].resistance)
    => (/\ ~rResult.isNull
        /\ rResult.value = Frac(NumberOf(circuit.edges[1].resistance), 1))

\* the bridge of five resistances 10 asked between a and d: 10
C8_Witness ==
  /\ ResistanceCall /\ call.a = "a" /\ call.b = "d"
  /\ IsBridge(circuit)
  /\ \A i \in EdgeIdx(circuit) : circuit.edges[i].resistance = JsNum(10)
  /\ rResult.value = Frac(10, 1)

(***************************************************************************)
(* C9: calculateCurrents returns an empty Map when the circuit has no      *)
(* edges or fewer than two nodes carry a potential; an undefined potential *)
(* and the empty string are absent, the number 0 is present.               *)
(***************************************************************************)
CurrentsCall == call.op = "currents"

CarriesPotential(node) ==
  /\ node.potential # JsUndefined
  /\ node.potential # JsStr(<<>>)

Carriers(c) == {i \in 1..Len(c.nodes) : CarriesPotential(c.nodes[i])}

C9_EmptyWithoutTwoPotentials ==
  (CurrentsCall /\ (Len(circuit.edges) = 0 \/ Cardinality(Carriers(circuit)) < 2))
    => cResult.result = <<>>

\* one node at 5, another with the empty string, an edge between them: empty
C9_Witness ==
  /\ CurrentsCall
  /\ Cardinality(Carriers(circuit)) = 1
  /\ \E i \in EdgeIdx(circuit), p \in 1..Len(circuit.nodes), q \in 1..Len(circuit.nodes) :
       /\ Joins(circuit.edges[i], circuit.nodes[p].id, circuit.nodes[q].id)
       /\ circuit.nodes[p].potential = JsNum(5)
       /\ circuit.nodes[q].potential = JsStr(<<>>)
       /\ circuit.edges[i].resistance = JsNum(2)
  /\ cResult.result = <<>>

(***************************************************************************)
(* C10: chain A-(R1)-B-(R2)-C with numeric potentials VA at A and VC at C, *)
(* none at B, and positive numeric R1 and R2: both edges carry the current *)
(* (VA - VC)/(R1 + R2), counted from A towards C, and the potential worked *)
(* out for B is VA - R1*(VA - VC)/(R1 + R2).                               *)
(***************************************************************************)
NodeOf(c, id) == c.nodes[CHOOSE k \in 1..Len(c.nodes) : c.nodes[k].id = id]

\* the current of edge e counted from node x to its other end, given the
\* current I counted from e.nodeA to e.nodeB
Towards(e, x, p, q) == IF e.nodeA = x THEN Frac(p, q) ELSE Frac(0 - p, q)

C10_ChainCurrents ==
  CurrentsCall =>
    \A m \in NodeIdSet(circuit), A \in NodeIdSet(circuit), C \in NodeIdSet(circuit),
       i \in EdgeIdx(circuit), j \in EdgeIdx(circuit) :
      LET R1 == circuit.edges[i].resistance
          R2 == circuit.edges[j].resistance
          VA == NodeOf(circuit, A).potential
          VC == NodeOf(circuit, C).potential
          dV == NumberOf(VA) - NumberOf(VC)
          Rs == NumberOf(R1) + NumberOf(R2)
      IN  (/\ SeriesVia(circuit, A, m, C, i, j)
           /\ IsPositiveNumber(R1) /\ IsPositiveNumber(R2)
           /\ IsNumber(VA) /\ IsNumber(VC)
           /\ ~CarriesPotential(NodeOf(circuit, m)))
            => (/\ MapHas(cResult.result, circuit.edges[i].id)
                /\ MapHas(cResult.result, circuit.edges[j].id)
                /\ MapGet(cResult.result, circuit.edges[i].id)
                     = Towards(circuit.edges[i], A, dV, Rs)
                /\ MapGet(cResult.result, circuit.edges[j].id)
                     = Towards(circuit.edges[j], m, dV, Rs)
                /\ MapHas(cResult.allPotentials, m)
                /\ MapGet(cResult.allPotentials, m)
                     = Frac(NumberOf(VA) * Rs - NumberOf(R1) * dV, Rs))

\* 12 V and 0 V across 2 and 4 ohm: 2 A in both edges, 8 V in the middle
C10_Witness ==
  /\ CurrentsCall
  /\ \E m \in NodeIdSet(circuit), A \in NodeIdSet(circuit), C \in NodeIdSet(circuit),
        i \in EdgeIdx(circuit), j \in EdgeIdx(circuit) :
       /\ SeriesVia(circuit, A, m, C, i, j)
       /\ circuit.edges[i] = Edge(circuit.edges[i].id, A, m, JsNum(2))
       /\ circuit.edges[j] = Edge(circuit.edges[j].id, m, C, JsNum(4))
       /\ NodeOf(circuit, A).potential = JsNum(12)
       /\ NodeOf(circuit, C).potential = JsNum(0)
       /\ NodeOf(circuit, m).potential = JsUndefined
       /\ MapGet(cResult.result, circuit.edges[i].id) = Frac(2, 1)
       /\ MapGet(cResult.result, circuit.edges[j].id) = Frac(2, 1)
       /\ MapGet(cResult.allPotentials, m) = Frac(8, 1)

(***************************************************************************)
(* C11: in calculateCurrents, when two nodes with different known          *)
(* potentials lie in the same group of nodes joined by zero-resistance     *)
(* edges, every zero-resistance edge with its endpoints in that group is   *)
(* reported with current infinity, and no node of the group has a          *)
(* potential in the analysis: none is a key of the potentials worked out,  *)
(* and every edge of finite nonzero resistance touching the group is       *)
(* absent from the result.                                                 *)
(***************************************************************************)
\* the nodes joined to n by zero-resistance edges / by edges of any kind
ZeroGroup(c, n) == ReachVia(c, {n}, ZeroEdgeIdx(c))
Component(c, n) == ReachVia(c, {n}, EdgeIdx(c))

InfEdgeIdx(c) == {i \in EdgeIdx(c) : isInfinity(parse(c.edges[i].resistance))}

\* the carriers of a potential among the nodes with id in S
CarriersIn(c, S) == {i \in Carriers(c) : c.nodes[i].id \in S}

\* two nodes of S carry numbers that differ
Conflicting(c, S) ==
  \E i \in CarriersIn(c, S), j \in CarriersIn(c, S) :
    /\ IsNumber(c.nodes[i].potential) /\ IsNumber(c.nodes[j].potential)
    /\ c.nodes[i].potential.n # c.nodes[j].potential.n

Touches(e, S) == e.nodeA \in S \/ e.nodeB \in S

C11_ShortCircuitGroup ==
  CurrentsCall =>
    \A n \in NodeIdSet(circuit) :
      Conflicting(circuit, ZeroGroup(circuit, n)) =>
        /\ ~MapHas(cResult.allPotentials, n)
        /\ \A i \in EdgeIdx(circuit) :
             Touches(circuit.edges[i], ZeroGroup(circuit, n)) =>
               IF i \in ZeroEdgeIdx(circuit)
                 THEN /\ MapHas(cResult.result, circuit.edges[i].id)
                      /\ MapGet(cResult.result, circuit.edges[i].id) = INFINITY
                 ELSE i \notin InfEdgeIdx(circuit) =>
                        ~MapHas(cResult.result, circuit.edges[i].id)

\* a at 0 and b at 5 over a zero-resistance edge, and b-c of 2 ohm towards
\* a third node: the first edge carries infinity, the second is left out
C11_Witness ==
  /\ CurrentsCall
  /\ \E i \in ZeroEdgeIdx(circuit), j \in EdgeIdx(circuit) :
       LET S == ZeroGroup(circuit, circuit.edges[i].nodeA)
       IN  /\ Conflicting(circuit, S)
           /\ j \notin ZeroEdgeIdx(circuit) /\ j \notin InfEdgeIdx(circuit)
           /\ Touches(circuit.edges[j], S)
           /\ MapGet(cResult.result, circuit.edges[i].id) = INFINITY
           /\ ~MapHas(cResult.result, circuit.edges[j].id)
           /\ \A n \in S : ~MapHas(cResult.allPotentials, n)

(***************************************************************************)
(* C12: with at least two nodes of known potential in the circuit, every   *)
(* edge of non-infinite resistance that lies in a connected component      *)
(* containing no node of known potential is absent from the result of      *)
(* calculateCurrents.                                                      *)
(***************************************************************************)
C12_FloatingComponentOmitted ==
  (CurrentsCall /\ Cardinality(Carriers(circuit)) >= 2) =>
    \A i \in EdgeIdx(circuit) \ InfEdgeIdx(circuit) :
      CarriersIn(circuit, Component(circuit, circuit.edges[i].nodeA)) = {}
        => ~MapHas(cResult.result, circuit.edges[i].id)

\* a at 0 and b at 5 joined by 2 ohm, c-d of 2 ohm apart from them: the
\* first edge has its current, the second is absent
C12_Witness ==
  /\ CurrentsCall
  /\ Cardinality(Carriers(circuit)) >= 2
  /\ \E i \in EdgeIdx(circuit), j \in EdgeIdx(circuit) :
       /\ i \notin InfEdgeIdx(circuit)
       /\ CarriersIn(circuit, Component(circuit, circuit.edges[i].nodeA)) = {}
       /\ ~MapHas(cResult.result, circuit.edges[i].id)
       /\ MapHas(cResult.result, circuit.edges[j].id)
       /\ ~isZero(MapGet(cResult.result, circuit.edges[j].id))
       /\ ~isInfinity(MapGet(cResult.result, circuit.edges[j].id))

(***************************************************************************)
(* C13: for a connected component whose resistances are all positive       *)
(* numbers and which holds at least two nodes of known potential, every    *)
(* edge of the component is present in the result of calculateCurrents,    *)
(* with the value it has when the rest of the circuit is removed -- also   *)
(* when the circuit holds an isolated node without potential or a          *)
(* separate component without a node of known potential.                   *)
(***************************************************************************)
\* the circuit cut down to the nodes with id in S and the edges among them
Restricted(c, S) ==
  [nodes |-> SelectSeq(c.nodes, LAMBDA node : node.id \in S),
   edges |-> SelectSeq(c.edges, LAMBDA e : e.nodeA \in S /\ e.nodeB \in S)]

\* the edges of the component S are positive numbers, two nodes of S carry
\* a potential
Solvable(c, S) ==
  /\ \A i \in EdgeIdx(c) :
       Touches(c.edges[i], S) => IsPositiveNumber(c.edges[i].resistance)
  /\ Cardinality(CarriersIn(c, S)) >= 2

SameAsAlone(c, S, result) ==
  LET alone == calculateCurrents(Restricted(c, S))
  IN  \A i \in EdgeIdx(c) :
        Touches(c.edges[i], S) =>
          /\ MapHas(result, c.edges[i].id)
          /\ MapHas(alone, c.edges[i].id)
          /\ Invoke("equals", <<MapGet(result, c.edges[i].id),
                                MapGet(alone, c.edges[i].id)>>)

C13_ComponentAsAlone ==
  CurrentsCall =>
    \A n \in NodeIdSet(circuit) :
      Solvable(circuit, Component(circuit, n)) =>
        SameAsAlone(circuit, Component(circuit, n), cResult.result)

(***************************************************************************)
(* Linear systems handed to solveLinearSystem                              *)
(***************************************************************************)
EmptyCircuit == [nodes |-> <<>>, edges |-> <<>>]

\* the symbol r as a RationalExpr
SymR == parse(JsStr(<<"r">>))

\* finite entries: zero, numbers of either sign, a symbol
EntryPool == {ZERO, ONE, Frac(2, 1), Frac(-1, 1), SymR}

\* the n x n systems with the entries of A in entries and those of b in rhs
SquareSystems(n, entries, rhs) ==
  {[A |-> A, b |-> b] : A \in [1..n -> [1..n -> entries]], b \in [1..n -> rhs]}

\* systems of dimension 0, 1 and 2 over numbers and a symbol
SmallSystem(sys) ==
  \E n \in {0, 1, 2} : sys \in SquareSystems(n, EntryPool, {ZERO, ONE, SymR})

\* systems of dimension 3 over 0 and 1
BinarySystem(sys) == sys \in SquareSystems(3, {ZERO, ONE}, {ZERO, ONE})

\* systems of dimension 3 whose first equation is x1 = 1 and whose other
\* rows are over 0, 1 and a symbol
PivotSystem(sys) ==
  /\ sys \in SquareSystems(3, {ZERO, ONE, SymR}, {ONE})
  /\ sys.A[1] = <<ONE, ZERO, ZERO>>
  /\ sys.A[2][1] # SymR /\ sys.A[3][1] # SymR

\* a caller invokes solveLinearSystem(A, b)
Solve ==
  /\ call.op = "none"
  /\ input # NoInput
  /\ call' = [op |-> "solve", a |-> "", b |-> "", times |-> 1]
  /\ output' = Invoke("solveLinearSystem", <<input.A, input.b>>)
  /\ input' = callerArrays(input.A, input.b)
  /\ UNCHANGED <<circuit, rResult, cResult>>

InitSolve ==
  /\ circuit = EmptyCircuit
  /\ Quiet
  /\ \/ SmallSystem(input)
     \/ BinarySystem(input)
NextSolve ==
  \/ Solve
  \/ Return
SpecSolve == InitSolve /\ [][NextSolve]_vars

\* the determinant of a square matrix, by expansion along the first row
RECURSIVE Det(_)
RECURSIVE Cofactors(_, _)
Minor(A, j) ==
  [i \in 1..(Len(A) - 1) |->
     [k \in 1..(Len(A) - 1) |-> A[i + 1][IF k < j THEN k ELSE k + 1]]]

Cofactors(A, j) ==
  IF j > Len(A) THEN ZERO
  ELSE LET term == Invoke("multiply", <<A[1][j], Det(Minor(A, j))>>)
       IN  Invoke("add", <<IF j % 2 = 1 THEN term ELSE negate(term),
                           Cofactors(A, j + 1)>>)

Det(A) == IF Len(A) = 0 THEN ONE ELSE IF Len(A) = 1 THEN A[1][1] ELSE Cofactors(A, 1)

Singular(A) == isZero(Det(A))

\* SUM_{k >= j} row[k] * x[k]
RECURSIVE RowSum(_, _, _)
RowSum(row, x, j) ==
  IF j > Len(x) THEN ZERO
  ELSE Invoke("add", <<Invoke("multiply", <<row[j], x[j]>>), RowSum(row, x, j + 1)>>)

SolveCall == call.op = "solve"

(***************************************************************************)
(* C14: for an n x n system with finite entries, solveLinearSystem returns *)
(* null exactly when the determinant of A is zero, whatever the right-hand *)
(* side; for n = 0 it returns the empty vector, not null.                  *)
(***************************************************************************)
C14_NullIffSingular ==
  SolveCall =>
    /\ output.ok <=> ~Singular(input.A)
    /\ Len(input.b) = 0 => output = [ok |-> TRUE, x |-> <<>>]

\* two identical equations without a zero coefficient, with different
\* right-hand sides: null
C14_Witness ==
  /\ SolveCall
  /\ Len(input.b) = 2
  /\ input.A[1] = input.A[2]
  /\ ~isZero(input.A[1][1]) /\ ~isZero(input.A[1][2])
  /\ input.b[1] # input.b[2]
  /\ ~output.ok

(***************************************************************************)
(* C15: whenever solveLinearSystem returns a vector x for a system with    *)
(* finite entries, x has length n and for each row i the sum over j of     *)
(* A[i][j] * x[j] equals b[i] under RationalExpr equality.                 *)
(***************************************************************************)
C15_SolutionSatisfies ==
  (SolveCall /\ output.ok) =>
    /\ Len(output.x) = Len(input.b)
    /\ \A i \in 1..Len(input.b) :
         Invoke("equals", <<RowSum(input.A[i], output.x, 1), input.b[i]>>)

\* r * x = 1 gives x = 1/r
C15_Witness ==
  /\ SolveCall
  /\ input = [A |-> <<<<SymR>>>>, b |-> <<ONE>>]
  /\ output.ok
  /\ output.x = <<RationalExpr(PolyConstant(N1), SymR.num)>>

(***************************************************************************)
(* Repeated calls: the caller invokes the same function again on the       *)
(* arguments it still holds.                                               *)
(***************************************************************************)
MaxCalls == 2

Repeat ==
  /\ call.op \in {"resistance", "currents", "solve"}
  /\ call.times < MaxCalls
  /\ call' = [call EXCEPT !.times = @ + 1]
  /\ rResult' = IF call.op = "resistance"
                  THEN Invoke("calculateEquivalentResistance", <<circuit, call.a, call.b>>)
                  ELSE rResult
  /\ cResult' = IF call.op = "currents"
                  THEN LET ca == Invoke("currentAnalysis", <<circuit>>)
                       IN  [result |-> ca.result, allPotentials |-> ca.allPotentials]
                  ELSE cResult
  /\ output' = IF call.op = "solve"
                 THEN Invoke("solveLinearSystem", <<input.A, input.b>>)
                 ELSE output
  /\ input' = IF call.op = "solve" THEN callerArrays(input.A, input.b) ELSE input
  /\ UNCHANGED circuit

\* systems of dimension 1 and 2 over 0, 1 and a symbol
PlainSystem(sys) ==
  \E n \in {1, 2} : sys \in SquareSystems(n, {ZERO, ONE, SymR}, {ONE, SymR})

InitRepeat ==
  /\ Quiet
  /\ \/ IslandCircuit(circuit) /\ input = NoInput
     \/ circuit = EmptyCircuit /\ PlainSystem(input)
NextRepeat ==
  \/ \E a \in QueryIds, b \in QueryIds : input = NoInput /\ CalcResistance(a, b)
  \/ input = NoInput /\ CalcCurrents
  \/ Solve
  \/ Repeat
  \/ Return
SpecRepeat == InitRepeat /\ [][NextRepeat]_vars

MaxDepth == 1

\* polynomials handed to the constructor: 0, 1, -2, r, r + 1
RawPolys ==
  {PolyZero, PolyConstant(N1), PolyConstant(NumOf(-2)), PolyVariable(<<"r">>),
   Invoke("PolyAdd", <<PolyVariable(<<"r">>), PolyConstant(N1)>>)}

\* the constructor on every pair of them (0/0 included), the constants,
\* fromNumber, fromString
Produced ==
  {RationalExpr(pq[1], pq[2]) : pq \in RawPolys \X RawPolys}
    \cup {ZERO, ONE, INFINITY}
    \cup {Invoke("fromNumber", <<v>>) : v \in {JsNum(0), JsNum(2), JsInfinity}}
    \cup {Invoke("fromString", <<str>>) : str \in {<<"r">>, <<"3">>, StrInfinity, StrInfGlyph}}

\* second operands of the later operations of a sequence
LaterOperands == {ZERO, INFINITY, RationalExpr(PolyConstant(NumOf(-2)), PolyVariable(<<"r">>))}

Operations == {"add", "subtract", "multiply", "divide", "reciprocal", "negate"}

Applied(op, x, y) ==
  CASE op = "add" -> Invoke("add", <<x, y>>)
    [] op = "subtract" -> Invoke("subtract", <<x, y>>)
    [] op = "multiply" -> Invoke("multiply", <<x, y>>)
    [] op = "divide" -> divide(x, y)
    [] op = "reciprocal" -> Invoke("reciprocal", <<x>>)
    [] op = "negate" -> negate(x)

\* a caller invokes x.op(y) (x.op() for reciprocal and negate)
Apply(op) ==
  /\ call.op = "none"
  /\ call' = [op |-> op, a |-> "", b |-> "", times |-> 1]
  /\ output' = Applied(op, input.x, input.y)
  /\ UNCHANGED <<circuit, rResult, cResult, input>>

\* x.toNumber() on the receiver
ToNumber ==
  /\ call.op = "none"
  /\ call' = [op |-> "toNumber", a |-> "", b |-> "", times |-> 1]
  /\ output' = toNumber(input.x)
  /\ UNCHANGED <<circuit, rResult, cResult, input>>

\* the value returned becomes the receiver of the next operation
Feed(y) ==
  /\ call.op \in Operations
  /\ input.depth < MaxDepth
  /\ input' = [x |-> output, y |-> y, depth |-> input.depth + 1]
  /\ call' = NoCall
  /\ output' = NoOutput
  /\ UNCHANGED <<circuit, rResult, cResult>>

InitAlgebra ==
  /\ circuit = EmptyCircuit
  /\ Quiet
  /\ \E x \in Produced, y \in Produced : input = [x |-> x, y |-> y, depth |-> 0]
NextAlgebra ==
  \/ \E op \in Operations : Apply(op)
  \/ ToNumber
  \/ \E y \in LaterOperands : Feed(y)
  \/ Return
SpecAlgebra == InitAlgebra /\ [][NextAlgebra]_vars

\* the three shapes of a stored value
ZeroShape(x) == x.num = PolyZero /\ x.den = PolyConstant(N1)
InfinityShape(x) == x.num = PolyConstant(N1) /\ x.den = PolyZero
ProperShape(x) == ~PolyIsZero(x.num) /\ ~PolyIsZero(x.den)
Shaped(x) == ZeroShape(x) \/ InfinityShape(x) \/ ProperShape(x)

Called(op) == call.op = op

(***************************************************************************)
(* C17: every RationalExpr produced by the constructor, the factories or a *)
(* sequence of add, subtract, multiply, divide, reciprocal and negate is   *)
(* zero (numerator empty, denominator the constant 1), infinity (numerator *)
(* the constant 1, denominator empty) or has numerator and denominator     *)
(* both nonzero; 0/0 is never stored, constructing it yields zero.         *)
(***************************************************************************)
C17_ThreeShapes ==
  /\ Shaped(input.x) /\ Shaped(input.y)
  /\ call.op \in Operations => Shaped(output)
  /\ RationalExpr(PolyZero, PolyZero) = ZERO

\* the second operation of a sequence returned a value with a symbol in
\* the numerator and in the denominator
C17_Witness ==
  /\ call.op \in Operations
  /\ input.depth = 1
  /\ ProperShape(output)
  /\ ~PolyIsConstant(output.num) /\ ~PolyIsConstant(output.den)

(***************************************************************************)
(* C18: multiply returns exact zero for infinity times zero in both        *)
(* operand orders, and infinity when one operand is infinity and the other *)
(* is not zero (infinity included).                                        *)
(***************************************************************************)
C18_MultiplyInfinity ==
  Called("multiply") =>
    /\ (isInfinity(input.x) /\ isZero(input.y)) => output = ZERO
    /\ (isZero(input.x) /\ isInfinity(input.y)) => output = ZERO
    /\ (isInfinity(input.x) /\ ~isZero(input.y)) => output = INFINITY
    /\ (isInfinity(input.y) /\ ~isZero(input.x)) => output = INFINITY

\* zero times infinity, the zero being the receiver
C18_Witness ==
  /\ Called("multiply")
  /\ isZero(input.x) /\ isInfinity(input.y)
  /\ output = ZERO

(***************************************************************************)
(* C19: add and subtract return infinity whenever at least one operand is  *)
(* infinity, infinity minus infinity included; infinity has no sign:       *)
(* negating infinity yields the same infinity value.                       *)
(***************************************************************************)
C19_InfinityAbsorbs ==
  /\ (Called("add") \/ Called("subtract")) =>
       ((isInfinity(input.x) \/ isInfinity(input.y)) => output = INFINITY)
  /\ Called("negate") => (isInfinity(input.x) => output = input.x)

\* a finite symbolic value minus infinity
C19_Witness ==
  /\ Called("subtract")
  /\ ~isInfinity(input.x) /\ ~isNumeric(input.x) /\ isInfinity(input.y)
  /\ output = INFINITY

(***************************************************************************)
(* C20: division is total: x.divide(ZERO) is infinity for every nonzero x  *)
(* and zero for x = 0; reciprocal maps zero to infinity and infinity to    *)
(* zero, and the reciprocal of the reciprocal of x equals x.               *)
(***************************************************************************)
C20_DivisionTotal ==
  /\ Called("divide") =>
       (isZero(input.y) =>
          output = IF isZero(input.x) THEN ZERO ELSE INFINITY)
  /\ Called("reciprocal") =>
       /\ isZero(input.x) => output = INFINITY
       /\ isInfinity(input.x) => output = ZERO
       /\ Invoke("equals", <<Invoke("reciprocal", <<output>>), input.x>>)

\* the reciprocal of a value with a symbol in the numerator and in the
\* denominator
C20_Witness ==
  /\ Called("reciprocal")
  /\ ~PolyIsConstant(input.x.num) /\ ~PolyIsConstant(input.x.den)
  /\ output = RationalExpr(input.x.den, input.x.num)

(***************************************************************************)
(* The constructor on raw pairs: new RationalExpr(num, den) on a pair of   *)
(* polynomials that has not been simplified, then once more on the stored  *)
(* pair.                                                                   *)
(***************************************************************************)
MaxInt == 6
IntRange == (0 - MaxInt)..MaxInt

\* the integer constant i as a Polynomial
IntPoly(i) == PolyConstant(NumOf(i))

\* polynomials over r and s given by their terms in insertion order: one
\* term, or two terms with different monomials
TermKeys == {ConstKey, <<<<"r">>>>, <<<<"s">>>>, <<<<"r">>, <<"r">>>>}
TermCoefs == {NumOf(-1), N1, NumOf(2)}
OrderedPolys ==
  {PolyCtor(<<<<k, c>>>>) : k \in TermKeys \ {ConstKey}, c \in TermCoefs}
    \cup {PolyCtor(<<<<k[1], c[1]>>, <<k[2], c[2]>>>>) :
            k \in {kk \in TermKeys \X TermKeys : kk[1] # kk[2]},
            c \in TermCoefs \X TermCoefs}

RawPairs ==
  {[num |-> IntPoly(n), den |-> IntPoly(d)] : n \in IntRange, d \in IntRange}
    \cup {[num |-> n, den |-> d] :
            n \in {PolyConstant(N1), PolyVariable(<<"r">>), PolyVariable(<<"s">>)},
            d \in OrderedPolys}

\* new RationalExpr(input.num, input.den)
Construct ==
  /\ call.op = "none"
  /\ call' = [op |-> "construct", a |-> "", b |-> "", times |-> 1]
  /\ output' = RationalExpr(input.num, input.den)
  /\ UNCHANGED <<circuit, rResult, cResult, input>>

\* new RationalExpr(x.num, x.den) on the stored pair of the value x returned
Reconstruct ==
  /\ call.op = "construct"
  /\ call' = [op |-> "reconstruct", a |-> "", b |-> "", times |-> 2]
  /\ output' = RationalExpr(output.num, output.den)
  /\ UNCHANGED <<circuit, rResult, cResult, input>>

InitConstruct ==
  /\ circuit = EmptyCircuit
  /\ Quiet
  /\ input \in RawPairs
NextConstruct ==
  \/ Construct
  \/ Reconstruct
  \/ Return
SpecConstruct == InitConstruct /\ [][NextConstruct]_vars

\* the input is the pair of integer constants (n, d)
IntPair(n, d) == input = [num |-> IntPoly(n), den |-> IntPoly(d)]

\* greatest common divisor of two positive integers, by definition
Divides(k, i) == i % k = 0
GreatestCommonDivisor(n, d) ==
  CHOOSE g \in 1..MaxInt :
    /\ Divides(g, n) /\ Divides(g, d)
    /\ \A k \in 1..MaxInt : Divides(k, n) /\ Divides(k, d) => k <= g

\* the stored pair is the pair of integer constants (n, d)
Stores(x, n, d) ==
  x = [num |-> <<<<ConstKey, <<n, 1>>>>>>, den |-> <<<<ConstKey, <<d, 1>>>>>>]

(***************************************************************************)
(* C21: for nonzero integer constants n and d, new RationalExpr(n, d)      *)
(* stores (n/g*s, d/g*s) with g = gcd(|n|, |d|) and s = sign(d): the       *)
(* stored denominator is positive and coprime to the numerator, two        *)
(* integer pairs denoting the same rational store identical pairs, and     *)
(* constructing again from the stored pair changes nothing.                *)
(***************************************************************************)
C21_LowestTerms ==
  \A n \in IntRange \ {0}, d \in IntRange \ {0} :
    IntPair(n, d) /\ call.op \in {"construct", "reconstruct"} =>
      LET g == GreatestCommonDivisor(Abs(n), Abs(d))
          s == IF d < 0 THEN -1 ELSE 1
          sn == (n \div g) * s
          sd == (d \div g) * s
      IN  /\ Stores(output, sn, sd)
          /\ sd > 0
          /\ GreatestCommonDivisor(Abs(sn), sd) = 1
          /\ \A n2 \in IntRange \ {0}, d2 \in IntRange \ {0} :
               n * d2 = n2 * d =>
                 Invoke("simplify", <<IntPoly(n2), IntPoly(d2)>>) = <<output.num, output.den>>

\* 2/-6 was constructed and is stored as -1/3, also after the second
\* construction
C21_Witness ==
  /\ IntPair(2, -6)
  /\ call.op = "reconstruct"
  /\ Stores(output, -1, 3)

\* the variables that occur in the numerator or the denominator of x
FreeVariables(x) == getVariables(x.num) \cup getVariables(x.den)

(***************************************************************************)
(* C22: toNumber raises an error exactly when the expression contains a    *)
(* free variable in its numerator or denominator; for zero it returns 0,   *)
(* for infinity it returns Infinity, and for every other numeric value it  *)
(* returns numerator divided by denominator.                               *)
(***************************************************************************)
C22_ToNumber ==
  Called("toNumber") =>
    LET x == input.x
    IN  /\ output.threw <=> FreeVariables(x) # {}
        /\ ZeroShape(x) => output = Finite(N0)
        /\ InfinityShape(x) => output = Infinite
        /\ ProperShape(x) /\ FreeVariables(x) = {} =>
             /\ ~output.threw /\ output.fin
             /\ NumMul(output.value, MapGet(x.den, ConstKey)) = MapGet(x.num, ConstKey)

\* toNumber threw on a symbolic value that an operation returned and whose
\* numerator and denominator both have a constant term
C22_Witness ==
  /\ Called("toNumber")
  /\ input.depth = 1
  /\ output = Threw
  /\ MapHas(input.x.num, ConstKey) /\ MapHas(input.x.den, ConstKey)

(***************************************************************************)
(* RationalExpr.parse on strings                                           *)
(***************************************************************************)
MaxLen == 3

\* the strings of at most n characters over the characters cs
RECURSIVE StringsOver(_, _)
StringsOver(cs, n) ==
  IF n = 0 THEN {<<>>}
  ELSE LET shorter == StringsOver(cs, n - 1)
       IN  shorter \cup {Append(str, c) : str \in shorter, c \in cs}

\* values handed to parse: numbers, the spellings of infinity, names, and
\* every short string over a variable, a digit and the two signs
ParsePool ==
  {JsNum(0), JsNum(2), JsInfinity}
    \cup {JsStr(str) : str \in {StrInfinity, StrInfGlyph, StrInf, <<"V">>,
                                <<"-">> \o StrInfinity, <<"+">> \o StrInfinity,
                                <<"i", "n">>, <<"i", "n", "f", "r">>}}
    \cup {JsStr(str) : str \in StringsOver({"r", "2", "+", "-"}, MaxLen)}

\* RationalExpr.parse(input)
Parse ==
  /\ call.op = "none"
  /\ call' = [op |-> "parse", a |-> "", b |-> "", times |-> 1]
  /\ output' = parse(input)
  /\ UNCHANGED <<circuit, rResult, cResult, input>>

InitParse ==
  /\ circuit = EmptyCircuit
  /\ Quiet
  /\ input \in ParsePool
NextParse ==
  \/ Parse
  \/ Return
SpecParse == InitParse /\ [][NextParse]_vars

\* the string is a number for JS (Number(str) is not NaN)
IsNumberString(str) == ~Invoke("JsNumber", <<str>>).nan

(***************************************************************************)
(* C23: RationalExpr.parse of a string yields infinity only for the        *)
(* literal tokens "Infinity" and the infinity glyph; every other string    *)
(* that is not a number is parsed as a symbolic expression (a non-infinite *)
(* value containing a variable).                                           *)
(***************************************************************************)
C23_InfinityTokens ==
  Called("parse") /\ input.t = "string" =>
    /\ isInfinity(output) => input.s \in {StrInfinity, StrInfGlyph}
    /\ input.s \notin {StrInfinity, StrInfGlyph} /\ ~IsNumberString(input.s) =>
         ~isInfinity(output) /\ FreeVariables(output) # {}

\* what the code does for the spellings of infinity: the string "inf" is a
\* third token that yields infinity
C23_ThirdToken ==
  Called("parse") /\ input = JsStr(StrInf) => output = INFINITY

(***************************************************************************)
(* Polynomial factories and arithmetic applied in sequence                 *)
(***************************************************************************)
MaxSteps == 2

\* arguments of constant and scale
Factors == {N0, NumOf(-1), NumOf(2), Num(1, 2)}
VarNames == {<<"r">>, <<"s">>}
FactoryPolys ==
  {PolyConstant(v) : v \in Factors} \cup {PolyVariable(name) : name \in VarNames}

\* numbers given to the later calls of a sequence
LaterFactors == {N0, NumOf(-1)}

PolyOperations ==
  {"constant", "variable", "add", "subtract", "negate", "scale", "multiply"}

\* the call of one factory or method with receiver p, argument q, number k
PolyApplied(op, p, q, k) ==
  CASE op = "constant" -> PolyConstant(k)
    [] op = "variable" -> PolyVariable(<<"r">>)
    [] op = "add" -> Invoke("PolyAdd", <<p, q>>)
    [] op = "subtract" -> PolySubtract(p, q)
    [] op = "negate" -> PolyNegate(p)
    [] op = "scale" -> Invoke("PolyScale", <<p, k>>)
    [] op = "multiply" -> Invoke("PolyMultiply", <<p, q>>)

PolyApply(op) ==
  /\ call.op = "none"
  /\ call' = [op |-> op, a |-> "", b |-> "", times |-> 1]
  /\ output' = PolyApplied(op, input.p, input.q, input.k)
  /\ UNCHANGED <<circuit, rResult, cResult, input>>

\* the polynomial returned becomes the receiver of the next call; the
\* argument is a factory polynomial or the polynomial itself
PolyFeed(q, k, self) ==
  /\ call.op \in PolyOperations
  /\ input.depth < MaxSteps
  /\ input' = [p |-> output, q |-> IF self THEN output ELSE q, k |-> k,
               depth |-> input.depth + 1]
  /\ call' = NoCall
  /\ output' = NoOutput
  /\ UNCHANGED <<circuit, rResult, cResult>>

InitPoly ==
  /\ circuit = EmptyCircuit
  /\ Quiet
  /\ \E p \in FactoryPolys, q \in FactoryPolys, k \in Factors :
       input = [p |-> p, q |-> q, k |-> k, depth |-> 0]
NextPoly ==
  \/ \E op \in PolyOperations : PolyApply(op)
  \/ \E q \in FactoryPolys, k \in LaterFactors, self \in BOOLEAN : PolyFeed(q, k, self)
  \/ Return
SpecPoly == InitPoly /\ [][NextPoly]_vars

\* the value of the polynomial p at r = rv, s = sv
RECURSIVE MonomialAt(_, _, _)
MonomialAt(key, rv, sv) ==
  IF key = <<>> THEN N1
  ELSE NumMul(IF Head(key) = <<"r">> THEN NumOf(rv) ELSE NumOf(sv),
              MonomialAt(Tail(key), rv, sv))
RECURSIVE ValueAt(_, _, _)
ValueAt(p, rv, sv) ==
  IF p = <<>> THEN N0
  ELSE NumAdd(NumMul(p[1][2], MonomialAt(p[1][1], rv, sv)),
              ValueAt(Tail(p), rv, sv))

\* p vanishes at every point of a grid that is larger than its degree in
\* each variable: p is the zero polynomial
Vanishes(p) ==
  \A rv \in 0..(MaxSteps + 1), sv \in 0..(MaxSteps + 1) : ValueAt(p, rv, sv) = N0

\* no stored term has a zero coefficient, and no monomial is stored twice
NoZeroTerm(p) ==
  /\ \A i \in 1..Len(p) : p[i][2] # N0
  /\ \A i, j \in 1..Len(p) : p[i][1] = p[j][1] => i = j

(***************************************************************************)
(* C24: after any sequence of Polynomial factory and arithmetic calls      *)
(* (constant, variable, add, subtract, negate, scale, multiply) no stored  *)
(* term has a zero coefficient, so a polynomial is zero exactly when its   *)
(* term mapping is empty; p.subtract(p) and p.scale(0) are the empty       *)
(* mapping for every p.                                                    *)
(***************************************************************************)
C24_NoZeroTerm ==
  call.op \in PolyOperations =>
    /\ NoZeroTerm(output)
    /\ Vanishes(output) <=> output = <<>>
    /\ Called("subtract") /\ input.q = input.p => output = <<>>
    /\ Called("scale") /\ input.k = N0 => output = <<>>

\* a polynomial of two terms built by earlier calls was subtracted from
\* itself, and the result is the empty mapping
C24_Witness ==
  /\ Called("subtract")
  /\ input.depth > 0
  /\ Len(input.p) = 2
  /\ input.q = input.p
  /\ output = <<>>

(***************************************************************************)
(* The pivot search of solveLinearSystem                                   *)
(***************************************************************************)
\* rows at or below the diagonal of column col with a nonzero entry, and
\* those of them whose entry is numeric
NonzeroRows(aug, col) == {r \in col..Len(aug) : ~isZero(aug[r][col])}
NumericRows(aug, col) == {r \in NonzeroRows(aug, col) : isNumeric(aug[r][col])}
First(S) == CHOOSE r \in S : \A q \in S : r <= q
Last(S) == CHOOSE r \in S : \A q \in S : q <= r

\* solveLinearSystem with another pivot rule: the first or the last row at
\* or below the diagonal whose entry is nonzero
RECURSIVE forwardEliminateBy(_, _, _)
forwardEliminateBy(rule, aug, col) ==
  IF col > Len(aug) THEN [ok |-> TRUE, aug |-> aug]
  ELSE IF NonzeroRows(aug, col) = {} THEN [ok |-> FALSE, aug |-> aug]
  ELSE LET pivotRow == IF rule = "first" THEN First(NonzeroRows(aug, col))
                       ELSE Last(NonzeroRows(aug, col))
       IN  forwardEliminateBy(rule,
             Invoke("eliminateBelow", <<swapRows(aug, col, pivotRow), col>>), col + 1)
solveBy(rule, A, b) ==
  IF Len(b) = 0 THEN [ok |-> TRUE, x |-> <<>>]
  ELSE LET fwd == forwardEliminateBy(rule, augmented(A, b), 1)
       IN  IF ~fwd.ok THEN [ok |-> FALSE, x |-> <<>>]
           ELSE backSubstitute(fwd.aug, Len(b), [i \in 1..Len(b) |-> ZERO])

\* both calls return null, or vectors that are equal entry by entry
SameSolution(s, t) ==
  /\ s.ok = t.ok
  /\ Len(s.x) = Len(t.x)
  /\ \A i \in 1..Len(s.x) : Invoke("equals", <<s.x[i], t.x[i]>>)

\* systems of dimension 2 over numbers and a symbol
PairSystem(sys) == sys \in SquareSystems(2, EntryPool, {ONE, SymR})

InitPivot ==
  /\ circuit = EmptyCircuit
  /\ Quiet
  /\ \/ PairSystem(input)
     \/ PivotSystem(input)
SpecPivot == InitPivot /\ [][NextSolve]_vars

\* the columns the call went through
Columns == pivotTrace(augmented(input.A, input.b), 1)

(***************************************************************************)
(* C25: in each elimination column solveLinearSystem picks as pivot the    *)
(* first row at or below the diagonal whose entry is nonzero and numeric   *)
(* if there is one, otherwise the first row at or below the diagonal whose *)
(* entry is nonzero; a zero entry is never chosen, and the choice does not *)
(* change the returned solution.                                           *)
(***************************************************************************)
C25_PivotChoice ==
  SolveCall =>
    /\ \A columns \in {Columns} : \A k \in 1..Len(columns) :
         \A aug \in {columns[k].aug}, col \in {columns[k].col},
            pivotRow \in {columns[k].pivotRow} :
           \A nonzero \in {NonzeroRows(aug, col)}, numeric \in {NumericRows(aug, col)} :
             /\ numeric # {} => pivotRow = First(numeric)
             /\ numeric = {} /\ nonzero # {} => pivotRow = First(nonzero)
             /\ pivotRow # 0 => ~isZero(aug[pivotRow][col])
             /\ pivotRow = 0 <=> nonzero = {}
    /\ \A rule \in {"first", "last"} :
         SameSolution(output, solveBy(rule, input.A, input.b))

\* in the second column the diagonal entry is symbolic and nonzero, the
\* entry below it is numeric and nonzero: the lower row is the pivot, and
\* a solution is returned
C25_Witness ==
  /\ SolveCall
  /\ Len(input.b) = 3
  /\ output.ok
  /\ \E columns \in {Columns} :
       /\ Len(columns) = 3
       /\ ~isZero(columns[2].aug[2][2]) /\ ~isNumeric(columns[2].aug[2][2])
       /\ isNumeric(columns[2].aug[3][2])
       /\ columns[2].pivotRow = 3

(***************************************************************************)
(* The sign of a stored denominator                                        *)
(***************************************************************************)
\* monomial key k comes before key l in the ordering of toString: higher
\* degree first, then by name, the constant last
RECURSIVE NamesBefore(_, _)
NamesBefore(k, l) ==
  IF k = <<>> \/ l = <<>> THEN FALSE
  ELSE IF Head(k) = Head(l) THEN NamesBefore(Tail(k), Tail(l))
  ELSE StrLt(Head(k), Head(l))
KeyBefore(k, l) ==
  \/ Len(k) > Len(l)
  \/ Len(k) = Len(l) /\ NamesBefore(k, l)

\* the coefficient of the first term of p in that ordering
CanonicalLead(p) ==
  p[CHOOSE i \in 1..Len(p) : \A j \in 1..Len(p) : j # i => KeyBefore(p[i][1], p[j][1])][2]

\* the same polynomial, whatever the order of its terms
SameTerms(p, q) == {p[i] : i \in 1..Len(p)} = {q[i] : i \in 1..Len(q)}

(***************************************************************************)
(* C26: for a RationalExpr whose denominator is not constant, after        *)
(* simplification the denominator's first term under the canonical term    *)
(* ordering (descending degree, then lexicographic monomial key, constant  *)
(* last) has a positive coefficient, independently of the order in which   *)
(* the denominator's terms were inserted; two constructions of the same    *)
(* denominator with different term insertion order store the same sign.    *)
(***************************************************************************)
C26_DenominatorSign ==
  call.op \in {"construct", "reconstruct"} /\ ~PolyIsConstant(output.den) =>
    /\ NumLt(N0, CanonicalLead(output.den))
    /\ \A other \in RawPairs :
         other.num = input.num /\ SameTerms(other.den, input.den) =>
           \A stored \in {Invoke("simplify", <<other.num, other.den>>)} :
             CanonicalLead(stored[2]) = CanonicalLead(output.den)

\* what the code normalises: the first term of the stored denominator in
\* insertion order is positive
C26_FirstInsertedPositive ==
  call.op \in {"construct", "reconstruct"} /\ ~PolyIsConstant(output.den) =>
    NumLt(N0, output.den[1][2])

(***************************************************************************)
(* The union pass over the edges of a circuit                              *)
(***************************************************************************)
\* four nodes and three edges, each between two distinct nodes in either
\* orientation, of resistance zero or a symbol
ShortedCircuit(c) ==
  \E es \in EdgeSeqs(NodePairs(4), 3, {JsNum(0), JsStr(<<"r">>)}), flips \in SUBSET (1..3) :
    c = [nodes |-> PlainNodes(4),
         edges |-> [i \in 1..3 |->
            IF i \in flips
              THEN Edge(es[i].id, es[i].nodeB, es[i].nodeA, es[i].resistance)
              ELSE es[i]]]

\* "const uf = new UnionFind(allNodeIds); for (const edge of circuit.edges) ..."
UnionPass ==
  /\ call.op = "none"
  /\ call' = [op |-> "unionPass", a |-> "", b |-> "", times |-> 1]
  /\ output' = unionZeroEdges(UnionFind(allNodeIds(circuit)), circuit.edges, 1)
  /\ UNCHANGED <<circuit, rResult, cResult, input>>

InitUnion ==
  /\ \/ GenericCircuit(circuit)
     \/ SymbolicCircuit(circuit)
     \/ ShortedCircuit(circuit)
  /\ Idle
NextUnion ==
  \/ UnionPass
  \/ Return
SpecUnion == InitUnion /\ [][NextUnion]_vars

\* the node reached from n by following the parent pointers up to a root,
\* in at most as many steps as there are nodes
RECURSIVE Ancestor(_, _, _)
Ancestor(parent, n, k) == IF k = 0 THEN n ELSE Ancestor(parent, parent[n], k - 1)
Representative(uf, n) == Ancestor(uf.parent, n, Cardinality(DOMAIN uf.parent))

(***************************************************************************)
(* C27: after the union pass over all edges, two nodes have the same       *)
(* union-find representative if and only if they are joined by a path of   *)
(* edges whose parsed resistance is exactly zero; edges with nonzero,      *)
(* infinite or symbolic resistance never merge nodes.                      *)
(***************************************************************************)
C27_RepresentativeIffZeroPath ==
  Called("unionPass") =>
    \A zero \in {ZeroEdgeIdx(circuit)} :
      /\ \A m \in NodeIdSet(circuit) :
           \A group \in {ReachVia(circuit, {m}, zero)} :
             \A n \in NodeIdSet(circuit) :
               Representative(output, m) = Representative(output, n) <=> n \in group
      /\ output = unionZeroEdges(UnionFind(allNodeIds(circuit)),
                                 [k \in 1..Cardinality(zero) |->
                                    circuit.edges[CHOOSE i \in zero :
                                      Cardinality({j \in zero : j < i}) = k - 1]], 1)
      /\ \A i \in EdgeIdx(circuit) \ zero :
           circuit.edges[i].nodeB \notin ReachVia(circuit, {circuit.edges[i].nodeA}, zero)
             => Representative(output, circuit.edges[i].nodeA)
                  # Representative(output, circuit.edges[i].nodeB)

\* a-b and c-d are shorted, a symbolic edge lies between b and c: two
\* groups of two nodes
C27_Witness ==
  /\ Called("unionPass")
  /\ Len(circuit.nodes) = 4
  /\ \E i \in EdgeIdx(circuit) :
       /\ Joins(circuit.edges[i], "b", "c")
       /\ circuit.edges[i].resistance = JsStr(<<"r">>)
  /\ Representative(output, "a") = Representative(output, "b")
  /\ Representative(output, "c") = Representative(output, "d")
  /\ Representative(output, "a") # Representative(output, "c")

(***************************************************************************)
(* A union-find object under calls of union and find in any order          *)
(***************************************************************************)
UfIds == {NodePool[i] : i \in 1..Len(NodePool)}

\* uf.union(a, b) on the object the caller holds
UfUnion(a, b) ==
  /\ call' = [op |-> "union", a |-> a, b |-> b, times |-> 1]
  /\ input' = Invoke("union", <<input, a, b>>)
  /\ output' = NoOutput
  /\ UNCHANGED <<circuit, rResult, cResult>>

\* uf.find(x): the root is returned, the object is left compressed
UfFind(x) ==
  /\ call' = [op |-> "find", a |-> x, b |-> "", times |-> 1]
  /\ input' = Invoke("find", <<input, x>>).uf
  /\ output' = Invoke("find", <<input, x>>).root
  /\ UNCHANGED <<circuit, rResult, cResult>>

InitUF ==
  /\ circuit = EmptyCircuit
  /\ Quiet
  /\ input = UnionFind(NodePool)
NextUF ==
  \/ \E a \in UfIds, b \in UfIds : UfUnion(a, b)
  \/ \E x \in UfIds : UfFind(x)
SpecUF == InitUF /\ [][NextUF]_vars

\* parent pointers: the roots, and the number of steps from a node up to a
\* root (more than the number of nodes if it reaches none)
IsRoot(uf, n) == uf.parent[n] = n
RECURSIVE StepsToRoot(_, _, _)
StepsToRoot(uf, n, k) ==
  IF IsRoot(uf, n) THEN 0
  ELSE IF k = 0 THEN 1
  ELSE 1 + StepsToRoot(uf, uf.parent[n], k - 1)
Depth(uf, n) == StepsToRoot(uf, n, Cardinality(UfIds))

\* every node reaches a root: the only cycles are the self-loops at roots
Forest(uf) == \A n \in UfIds : Depth(uf, n) <= Cardinality(UfIds)

\* the height of the tree of root r
Height(uf, r) ==
  LET depths == {Depth(uf, n) : n \in {m \in UfIds : Representative(uf, m) = r}}
  IN  CHOOSE h \in depths : \A d \in depths : d <= h

RankBoundsHeight(uf) ==
  \A r \in UfIds : IsRoot(uf, r) => uf.rank[r] >= Height(uf, r)

\* the nodes on the path from x up to its root
RECURSIVE PathUp(_, _, _)
PathUp(uf, x, k) ==
  IF IsRoot(uf, x) \/ k = 0 THEN {x} ELSE {x} \cup PathUp(uf, uf.parent[x], k - 1)

\* a step that is a call of find(x): the root of x is returned, no node
\* changes its representative, no rank changes, and the only pointers that
\* change are those of the nodes visited, which then point to that root
FindPreserves ==
  call'.op = "find" =>
    /\ output' = Representative(input, call'.a)
    /\ \A n \in UfIds : Representative(input', n) = Representative(input, n)
    /\ input'.rank = input.rank
    /\ \A n \in UfIds :
         input'.parent[n] # input.parent[n] =>
           /\ n \in PathUp(input, call'.a, Cardinality(UfIds))
           /\ input'.parent[n] = output'

(***************************************************************************)
(* C28: after any interleaving of union and find calls the parent pointers *)
(* form a forest whose only cycles are the self-loops at roots (so find    *)
(* always terminates), a root's rank is never smaller than the height of   *)
(* its tree, and find with path compression changes no node's              *)
(* representative: it only re-points visited nodes to the root it returns. *)
(***************************************************************************)
C28_ForestRankFind ==
  /\ [](Forest(input) /\ RankBoundsHeight(input))
  /\ [][FindPreserves]_vars

\* find was called on a node two steps below its root and has re-pointed
\* it: every node is now at most one step from its root, whose rank is 2
C28_Witness ==
  /\ Called("find")
  /\ \E r \in UfIds :
       /\ IsRoot(input, r) /\ input.rank[r] = 2
       /\ output = r
       /\ Height(input, r) = 1
       /\ \A n \in UfIds : Representative(input, n) = r

(***************************************************************************)
(* Kirchhoff's current law on the result of calculateCurrents              *)
(***************************************************************************)
\* the edges that have node n as an end
IncidentIdx(c, n) == {i \in EdgeIdx(c) : Touches(c.edges[i], {n})}

\* the sum over the edges i .. Len(edges) at node n of the current of the
\* edge, counted positive when the edge's nodeB is n (it flows into n) and
\* negative when its nodeA is n
RECURSIVE NetInflow(_, _, _, _)
NetInflow(c, result, n, i) ==
  IF i > Len(c.edges) THEN ZERO
  ELSE LET e == c.edges[i]
           rest == NetInflow(c, result, n, i + 1)
       IN  IF e.nodeB = n THEN Invoke("add", <<rest, MapGet(result, e.id)>>)
           ELSE IF e.nodeA = n THEN Invoke("subtract", <<rest, MapGet(result, e.id)>>)
           ELSE rest

\* the law at the nodes without an assigned potential whose edges all have
\* a current in the result
LawAtFreeNodes(c, result) ==
  \A p \in 1..Len(c.nodes) :
    (/\ ~CarriesPotential(c.nodes[p])
     /\ \A i \in IncidentIdx(c, c.nodes[p].id) : MapHas(result, c.edges[i].id))
      => isZero(NetInflow(c, result, c.nodes[p].id, 1))

(***************************************************************************)
(* C29: Kirchhoff's current law holds for the result of calculateCurrents  *)
(* at every node that has no assigned potential: whenever all edges        *)
(* incident to such a node are present in the result, the currents on      *)
(* them, signed as flowing from each edge's nodeA to its nodeB, sum to     *)
(* zero at that node.                                                      *)
(***************************************************************************)
C29_KirchhoffCurrentLaw ==
  CurrentsCall => LawAtFreeNodes(circuit, cResult.result)

\* what holds: the law at the free nodes of the circuits without an edge of
\* zero resistance
C29_LawWithoutZeroEdges ==
  (CurrentsCall /\ ZeroEdgeIdx(circuit) = {}) => LawAtFreeNodes(circuit, cResult.result)

(***************************************************************************)
(* Zero-resistance edges in calculateCurrents                              *)
(***************************************************************************)
\* the chain a - b - c - d: every node with or without a potential, every
\* edge shorted, resistive or open
LadderCircuit(c) ==
  \E pots \in [1..4 -> PotPool], res \in [1..3 -> CurResPool], flip \in BOOLEAN :
    LET drawn == [nodes |-> [i \in 1..4 |-> Node(NodePool[i], pots[i])],
                  edges |-> [i \in 1..3 |->
                     Edge(EdgePool[i], NodePool[i], NodePool[i + 1], res[i])]]
    IN  c = IF flip THEN Flipped(drawn) ELSE drawn

InitShort ==
  /\ LadderCircuit(circuit)
  /\ Idle
SpecShort == InitShort /\ [][NextCur]_vars

(***************************************************************************)
(* C30: in calculateCurrents with at least two boundary nodes and finite   *)
(* known potentials, the current reported for a zero-resistance edge is    *)
(* determined by its union-find group: infinity if the group contains two  *)
(* unequal known potentials, exact 0 if the group's potential is known or  *)
(* solved, and absent otherwise; the final pass never assigns infinity to  *)
(* such an edge.                                                           *)
(***************************************************************************)
C30_ZeroEdgeByGroup ==
  (CurrentsCall /\ Cardinality(Carriers(circuit)) >= 2) =>
    \A i \in ZeroEdgeIdx(circuit) :
      \A group \in {ZeroGroup(circuit, circuit.edges[i].nodeA)}, id \in {circuit.edges[i].id} :
        /\ circuit.edges[i].nodeB \in group
        /\ IF Conflicting(circuit, group)
             THEN MapHas(cResult.result, id) /\ MapGet(cResult.result, id) = INFINITY
           ELSE IF \E n \in group : MapHas(cResult.allPotentials, n)
             THEN MapHas(cResult.result, id) /\ MapGet(cResult.result, id) = ZERO
           ELSE ~MapHas(cResult.result, id)
        /\ (CarriersIn(circuit, group) # {} /\ ~Conflicting(circuit, group))
             => \E n \in group : MapHas(cResult.allPotentials, n)

\* a at 0, d at 5, b and c shorted together between two resistors: the
\* potential of the group is solved (5/2) and the short is reported with 0
C30_Witness ==
  /\ CurrentsCall
  /\ \A p \in 1..4 : circuit.nodes[p].potential =
       (IF p = 1 THEN JsNum(0) ELSE IF p = 4 THEN JsNum(5) ELSE JsUndefined)
  /\ \A i \in 1..3 : circuit.edges[i].resistance = (IF i = 2 THEN JsNum(0) ELSE JsNum(2))
  /\ \E n \in {"b", "c"} :
       /\ MapHas(cResult.allPotentials, n)
       /\ MapGet(cResult.allPotentials, n) = Frac(5, 2)
  /\ MapGet(cResult.result, "e2") = ZERO

====
